---- MODULE Spec2Model ----
(***************************************************************************)
(* Verification model of the ClimateTemplate pipeline:                     *)
(*   classification and rendering of one raster cell                       *)
(*       (reclassify_raster, create_visualization_countinious_...),        *)
(*   grouping, renaming and template matching of the rendered images       *)
(*       (process_raster_for_layout, rename_and_copy_images,               *)
(*        process_backgrounds),                                            *)
(*   the bounded-concurrency upload (upload_files_to_api_async).           *)
(*                                                                         *)
(* Representation.                                                         *)
(*  - Raster values, boundaries and class ids are fixed-point numbers with *)
(*    one decimal digit: the integer n stands for n/10 (the palettes hold  *)
(*    the boundary -0.9).  -float("inf") is NegInf, which lies below every *)
(*    finite value of the model.                                           *)
(*  - numpy works cell by cell, so a raster is represented by one cell.    *)
(*  - A Python str is a sequence of one-character strings, so that split,  *)
(*    slicing, "in" and startswith are computed and not assumed.           *)
(*  - An optional value (None or x) is the sequence << >> or <<x>>.        *)
(***************************************************************************)
EXTENDS Integers, Sequences, FiniteSets, TLC

VARIABLES
    \* ---- classification and rendering of one raster
    palettes,       \* name of the active palette table, "V1" or "V2"
    raster_type,    \* indicator key of the raster (a str)
    raster_data,    \* the cell of the source raster
    src_nodata,     \* src.nodata of the source raster: << >> or <<value>>
    rec_data,       \* the cell of the reclassified raster: << >> until written
    rec_nodata,     \* nodata of the reclassified raster's profile
    continuous,     \* the `continuous` argument the renderer is called with
    image,          \* what was drawn for the cell: << >> or
                    \* <<[masked, color, position, rgb]>>
    cpc,            \* "loaded", "reclassified", "rendered", "render_error";
                    \* "direct" before a call of the renderer on its own
    \* ---- rendering pass, renaming and templates
    rasters,        \* the rasters the pass has still to handle
    rendered,       \* the renderings made: [path, palette, reclassified]
    list_for_background_layout,  \* the dict group key -> image paths
    renamed,        \* the copies rename_and_copy_images made, in order
    backgrounds,    \* list_of_background of the last process_backgrounds
    composites,     \* the compositor calls of the last process_backgrounds
    not_found,      \* the keys the last process_backgrounds reported missing
    lpc,            \* "processing", "renamed", "composited", "error"
    \* ---- upload
    tree,           \* the entries under root_folder: [is_file, has_dot]
    root_exists,    \* os.path.isdir(root_folder)
    max_concurrent,
    all_files,      \* the enumerated entries, as indices into tree
    semaphore,      \* the counter of the asyncio.Semaphore
    task,           \* per enumerated file: "created", "posting", "done",
                    \* or "raised" when an exception left the coroutine
    outcome,        \* per enumerated file: how its POST ended
    results,        \* per enumerated file: what its coroutine returned
    completed,      \* the tasks that ended, in the order they ended
    uploaded,       \* the list upload_files_to_api_async returns
    report,         \* << >>, or <<n>> once upload_results_async has logged
                    \* "Upload finished. Uploaded n files via API"
    upc,            \* "start", "gather", "returned"
    \* ---- clipping and reprojection of the rasters
    list_of_rasters,   \* the rasters process_rasters is called with:
                       \* [name, crs]
    tump_folder,       \* the files of the folder of clipped rasters:
                       \* [name, crs, written], written in this call or not
    tump_folder_img,   \* the files of the folder of reprojected rasters
    list_of_img,       \* the list process_rasters builds: file names in
                       \* tump_folder_img
    ppc,               \* "loop", "returned"
    \* ---- removal of old folders of the SFTP server
    dir_entries,       \* the file names sftp_client.listdir_attr returned
    entry_index,       \* the number of entries the loop has left behind
    remote_dirs,       \* the directories of remote_root
    days_threshold,    \* the argument days_threshold
    current_time,      \* the date of datetime.now(): <<year, month, day>>
    spc,               \* "loop", "done", or "error" once the handler of
                       \* `except Exception` has printed its message
    \* ---- main
    source_rasters,    \* what grab_files finds, per raster: "ok",
                       \* "unreadable", "unknown_type", "undated"
    templates_dict,    \* the number of template folders os.walk finds
    main_index,        \* the passes made of the loop main is in
    temp_dirs,         \* the temporary working directories exist
    escaped,           \* << >>, or <<e>> for the exception e that left a stage
    main_pc            \* the stage main is at; "returned"; "traceback"
                       \* once an exception has left main

cvars == <<palettes, raster_type, raster_data, src_nodata, rec_data,
           rec_nodata, continuous, image, cpc>>

lvars == <<rasters, rendered, list_for_background_layout, renamed,
           backgrounds, composites, not_found, lpc>>

uvars == <<tree, root_exists, max_concurrent, all_files, semaphore, task,
           outcome, results, completed, uploaded, report, upc>>

pvars == <<list_of_rasters, tump_folder, tump_folder_img, list_of_img, ppc>>

svars == <<dir_entries, entry_index, remote_dirs, days_threshold,
           current_time, spc>>

mvars == <<source_rasters, templates_dict, main_index, temp_dirs, escaped,
           main_pc>>

xvars == <<pvars, svars, mvars>>

vars == <<cvars, lvars, uvars, xvars>>

(***************************************************************************)
(* Bounds of the model.                                                    *)
(***************************************************************************)
\* cell values are taken at every boundary and up to MaxOffset tenths on
\* either side of it
MaxOffset == 1
\* rasters in one rendering pass
MaxRasters == 3
\* rasters in a pass that goes on to the templates
MaxSeries == 2
\* templates in one call of process_backgrounds
MaxTemplates == 2
\* entries under the folder to upload
MaxEntries == 2
\* largest max_concurrent tried
MaxConcurrent == 2

(***************************************************************************)
(* Program constants.                                                      *)
(***************************************************************************)
\* -float("inf"), the first boundary of the HI palettes
NegInf == -100000000
\* -999.0, the no-data value reclassify_raster assumes when src.nodata is None
DefaultNoData == -9990

None == << >>
Some(x) == <<x>>

PALETTES_V2 ==
       (<<"A", "W", "P">> :> [
        colors |-> <<<<255, 255, 255>>, <<255, 255, 255>>, <<189, 0, 38>>, <<240, 59, 32>>, <<253, 141, 60>>, <<254, 178, 76>>, <<254, 217, 118>>, <<255, 255, 178>>, <<255, 255, 255>>>>,
        boundaries |-> <<0, 10, 20, 30, 40, 50, 60>>,
        classes |-> <<-9990, -10, 0, 10, 20, 30, 40, 50, 60>>,
        continuous_coloring |-> FALSE])
    @@ (<<"A", "W", "D">> :> [
        colors |-> <<<<255, 255, 255>>, <<255, 255, 255>>, <<33, 102, 172>>, <<103, 169, 207>>, <<209, 229, 240>>, <<253, 219, 199>>, <<239, 138, 98>>, <<178, 24, 43>>>>,
        boundaries |-> <<-2000, -600, -300, 0, 300, 600, 2000>>,
        classes |-> <<-9990, -10, 0, 10, 20, 30, 40, 50>>,
        continuous_coloring |-> FALSE])
    @@ (<<"A", "W", "R">> :> [
        colors |-> <<<<255, 255, 255>>, <<255, 255, 255>>, <<241, 238, 246>>, <<208, 209, 230>>, <<166, 189, 219>>, <<116, 169, 207>>, <<43, 140, 190>>, <<4, 90, 141>>>>,
        boundaries |-> <<0, 100, 300, 500, 700, 900, 1000>>,
        classes |-> <<-9990, -10, 0, 10, 20, 30, 40, 50>>,
        continuous_coloring |-> FALSE])
    @@ (<<"H", "I">> :> [
        colors |-> <<<<255, 255, 255>>, <<255, 255, 255>>, <<255, 255, 255>>, <<254, 229, 217>>, <<252, 174, 145>>, <<251, 106, 74>>, <<203, 24, 29>>>>,
        boundaries |-> <<NegInf, 270, 320, 410, 540, 1000>>,
        classes |-> <<-9990, -10, 0, 10, 20, 30, 40>>,
        continuous_coloring |-> FALSE])
    @@ (<<"U", "T", "C", "I">> :> [
        colors |-> <<<<5, 48, 97>>, <<33, 102, 172>>, <<67, 147, 195>>, <<146, 197, 222>>, <<209, 229, 240>>, <<247, 247, 247>>, <<253, 219, 199>>, <<244, 165, 130>>, <<214, 96, 77>>, <<178, 24, 43>>>>,
        boundaries |-> <<-1000, -400, -270, -130, 0, 90, 260, 320, 380, 460, 1000>>,
        classes |-> <<0, 10, 20, 30, 40, 50, 60, 70, 80, 90>>,
        continuous_coloring |-> FALSE])
    @@ (<<"F", "W", "I">> :> [
        colors |-> <<<<255, 255, 255>>, <<255, 255, 255>>, <<145, 191, 219>>, <<224, 243, 248>>, <<255, 255, 191>>, <<254, 224, 144>>, <<252, 141, 89>>, <<215, 48, 39>>>>,
        boundaries |-> <<10, 20, 30, 40, 50, 60>>,
        classes |-> <<-9990, -10, 10, 20, 30, 40, 50, 60>>,
        continuous_coloring |-> FALSE])
    @@ (<<"D", "F", "M", "1", "0", "H">> :> [
        colors |-> <<<<255, 255, 255>>, <<255, 255, 255>>, <<178, 24, 43>>, <<214, 96, 77>>, <<244, 165, 130>>, <<253, 219, 199>>, <<224, 224, 224>>, <<186, 186, 186>>>>,
        boundaries |-> <<-9, 60, 90, 120, 150, 250, 350>>,
        classes |-> <<-9990, -10, 0, 10, 20, 30, 40, 50>>,
        continuous_coloring |-> FALSE])

PALETTES_V1 ==
       (<<"A", "W", "P">> :> [
        colors |-> <<<<255, 255, 255>>, <<255, 255, 255>>, <<140, 0, 0>>, <<255, 0, 0>>, <<230, 76, 0>>, <<255, 170, 0>>, <<255, 255, 0>>, <<255, 255, 190>>, <<255, 255, 255>>>>,
        boundaries |-> <<0, 10, 20, 30, 40, 50, 60>>,
        classes |-> <<-9990, -10, 0, 10, 20, 30, 40, 50, 60>>,
        continuous_coloring |-> FALSE])
    @@ (<<"A", "W", "D">> :> [
        colors |-> <<<<255, 255, 255>>, <<64, 11, 0>>, <<65, 10, 0>>, <<66, 10, 0>>, <<68, 10, 0>>, <<69, 10, 0>>, <<71, 9, 0>>, <<72, 9, 0>>, <<73, 9, 0>>, <<75, 9, 0>>, <<76, 8, 0>>, <<78, 8, 0>>, <<79, 8, 0>>, <<80, 8, 0>>, <<82, 7, 0>>, <<83, 7, 0>>, <<85, 7, 0>>, <<86, 7, 0>>, <<87, 6, 0>>, <<89, 6, 0>>, <<90, 6, 0>>, <<92, 6, 0>>, <<93, 8, 0>>, <<95, 10, 0>>, <<97, 13, 0>>, <<99, 15, 0>>, <<101, 18, 0>>, <<103, 20, 0>>, <<105, 22, 1>>, <<107, 25, 1>>, <<109, 27, 1>>, <<111, 30, 1>>, <<112, 32, 1>>, <<114, 34, 1>>, <<116, 37, 1>>, <<118, 39, 2>>, <<120, 42, 2>>, <<122, 44, 2>>, <<124, 46, 2>>, <<126, 49, 2>>, <<128, 51, 2>>, <<130, 54, 3>>, <<131, 57, 4>>, <<133, 61, 6>>, <<135, 64, 8>>, <<137, 68, 10>>, <<139, 72, 11>>, <<140, 75, 13>>, <<142, 79, 15>>, <<144, 83, 17>>, <<146, 86, 18>>, <<148, 90, 20>>, <<149, 94, 22>>, <<151, 97, 24>>, <<153, 101, 25>>, <<155, 105, 27>>, <<157, 108, 29>>, <<158, 112, 31>>, <<160, 116, 32>>, <<162, 119, 34>>, <<164, 123, 36>>, <<166, 127, 38>>, <<167, 129, 42>>, <<169, 132, 47>>, <<170, 134, 51>>, <<172, 137, 56>>, <<173, 139, 60>>, <<175, 142, 65>>, <<176, 144, 69>>, <<178, 147, 74>>, <<179, 149, 78>>, <<181, 152, 83>>, <<182, 155, 87>>, <<184, 157, 92>>, <<185, 160, 96>>, <<187, 162, 101>>, <<188, 165, 105>>, <<190, 167, 110>>, <<191, 170, 114>>, <<193, 172, 119>>, <<194, 175, 123>>, <<196, 178, 128>>, <<197, 180, 132>>, <<198, 182, 137>>, <<199, 184, 142>>, <<201, 186, 146>>, <<202, 189, 151>>, <<203, 191, 156>>, <<205, 193, 160>>, <<206, 195, 165>>, <<207, 197, 170>>, <<209, 200, 175>>, <<210, 202, 179>>, <<211, 204, 184>>, <<212, 206, 189>>, <<214, 208, 193>>, <<215, 211, 198>>, <<216, 213, 203>>, <<218, 215, 207>>, <<219, 217, 212>>, <<220, 219, 217>>, <<222, 222, 222>>, <<218, 220, 219>>, <<214, 219, 217>>, <<210, 218, 215>>, <<206, 216, 213>>, <<202, 215, 210>>, <<198, 214, 208>>, <<195, 212, 206>>, <<191, 211, 204>>, <<187, 210, 201>>, <<183, 209, 199>>, <<179, 207, 197>>, <<175, 206, 195>>, <<171, 205, 192>>, <<168, 203, 190>>, <<164, 202, 188>>, <<160, 201, 186>>, <<156, 199, 183>>, <<152, 198, 181>>, <<148, 197, 179>>, <<145, 196, 177>>, <<141, 194, 176>>, <<138, 193, 175>>, <<134, 191, 174>>, <<131, 190, 173>>, <<128, 188, 173>>, <<124, 187, 172>>, <<121, 185, 171>>, <<118, 184, 170>>, <<114, 182, 169>>, <<111, 181, 169>>, <<108, 179, 168>>, <<104, 178, 167>>, <<101, 176, 166>>, <<98, 175, 165>>, <<94, 173, 165>>, <<91, 172, 164>>, <<88, 170, 163>>, <<84, 169, 162>>, <<81, 167, 161>>, <<78, 166, 161>>, <<76, 163, 160>>, <<74, 160, 159>>, <<73, 157, 158>>, <<71, 154, 157>>, <<70, 151, 156>>, <<68, 148, 155>>, <<66, 145, 154>>, <<65, 142, 153>>, <<63, 139, 152>>, <<62, 136, 152>>, <<60, 133, 151>>, <<58, 130, 150>>, <<57, 127, 149>>, <<55, 124, 148>>, <<54, 121, 147>>, <<52, 118, 146>>, <<50, 115, 145>>, <<49, 112, 144>>, <<47, 109, 143>>, <<46, 107, 143>>, <<45, 104, 141>>, <<45, 102, 140>>, <<45, 100, 138>>, <<44, 97, 137>>, <<44, 95, 136>>, <<44, 93, 134>>, <<43, 90, 133>>, <<43, 88, 131>>, <<43, 86, 130>>, <<43, 84, 129>>, <<42, 81, 127>>, <<42, 79, 126>>, <<42, 77, 124>>, <<41, 74, 123>>, <<41, 72, 122>>, <<41, 70, 120>>, <<40, 67, 119>>, <<40, 65, 117>>, <<40, 63, 116>>, <<40, 61, 115>>, <<39, 59, 112>>, <<39, 58, 109>>, <<38, 56, 107>>, <<38, 55, 104>>, <<38, 54, 102>>, <<37, 52, 99>>, <<37, 51, 97>>, <<37, 49, 94>>, <<36, 48, 92>>, <<36, 47, 89>>, <<36, 45, 86>>, <<35, 44, 84>>, <<35, 42, 81>>, <<35, 41, 79>>, <<34, 40, 76>>, <<34, 38, 74>>, <<34, 37, 71>>, <<33, 35, 69>>, <<33, 34, 66>>, <<33, 33, 64>>>>,
        boundaries |-> <<-2000, -990, -980, -970, -960, -950, -940, -930, -920, -910, -900, -890, -880, -870, -860, -850, -840, -830, -820, -810, -800, -790, -780, -770, -760, -750, -740, -730, -720, -710, -700, -690, -680, -670, -660, -650, -640, -630, -620, -610, -600, -590, -580, -570, -560, -550, -540, -530, -520, -510, -500, -490, -480, -470, -460, -450, -440, -430, -420, -410, -400, -390, -380, -370, -360, -350, -340, -330, -320, -310, -300, -290, -280, -270, -260, -250, -240, -230, -220, -210, -200, -190, -180, -170, -160, -150, -140, -130, -120, -110, -100, -90, -80, -70, -60, -50, -40, -30, -20, -10, 0, 10, 20, 30, 40, 50, 60, 70, 80, 90, 100, 110, 120, 130, 140, 150, 160, 170, 180, 190, 200, 210, 220, 230, 240, 250, 260, 270, 280, 290, 300, 310, 320, 330, 340, 350, 360, 370, 380, 390, 400, 410, 420, 430, 440, 450, 460, 470, 480, 490, 500, 510, 520, 530, 540, 550, 560, 570, 580, 590, 600, 610, 620, 630, 640, 650, 660, 670, 680, 690, 700, 710, 720, 730, 740, 750, 760, 770, 780, 790, 800, 810, 820, 830, 840, 850, 860, 870, 880, 890, 900, 910, 920, 930, 940, 950, 960, 970, 980, 990, 2000>>,
        classes |-> <<-9990, 0, 10, 20, 30, 40, 50, 60, 70, 80, 90, 100, 110, 120, 130, 140, 150, 160, 170, 180, 190, 200, 210, 220, 230, 240, 250, 260, 270, 280, 290, 300, 310, 320, 330, 340, 350, 360, 370, 380, 390, 400, 410, 420, 430, 440, 450, 460, 470, 480, 490, 500, 510, 520, 530, 540, 550, 560, 570, 580, 590, 600, 610, 620, 630, 640, 650, 660, 670, 680, 690, 700, 710, 720, 730, 740, 750, 760, 770, 780, 790, 800, 810, 820, 830, 840, 850, 860, 870, 880, 890, 900, 910, 920, 930, 940, 950, 960, 970, 980, 990, 1000, 1010, 1020, 1030, 1040, 1050, 1060, 1070, 1080, 1090, 1100, 1110, 1120, 1130, 1140, 1150, 1160, 1170, 1180, 1190, 1200, 1210, 1220, 1230, 1240, 1250, 1260, 1270, 1280, 1290, 1300, 1310, 1320, 1330, 1340, 1350, 1360, 1370, 1380, 1390, 1400, 1410, 1420, 1430, 1440, 1450, 1460, 1470, 1480, 1490, 1500, 1510, 1520, 1530, 1540, 1550, 1560, 1570, 1580, 1590, 1600, 1610, 1620, 1630, 1640, 1650, 1660, 1670, 1680, 1690, 1700, 1710, 1720, 1730, 1740, 1750, 1760, 1770, 1780, 1790, 1800, 1810, 1820, 1830, 1840, 1850, 1860, 1870, 1880, 1890, 1900, 1910, 1920, 1930, 1940, 1950, 1960, 1970, 1980, 1990>>,
        continuous_coloring |-> FALSE])
    @@ (<<"A", "W", "R">> :> [
        colors |-> <<<<255, 255, 255>>, <<255, 255, 255>>, <<102, 60, 9>>, <<108, 65, 15>>, <<114, 70, 21>>, <<120, 75, 27>>, <<126, 81, 34>>, <<132, 86, 40>>, <<138, 91, 46>>, <<144, 97, 53>>, <<150, 102, 59>>, <<156, 107, 65>>, <<163, 113, 72>>, <<166, 117, 77>>, <<170, 121, 83>>, <<174, 125, 89>>, <<178, 130, 95>>, <<182, 134, 101>>, <<185, 138, 107>>, <<189, 143, 113>>, <<193, 147, 119>>, <<197, 151, 125>>, <<201, 156, 131>>, <<203, 160, 136>>, <<206, 164, 141>>, <<209, 169, 146>>, <<212, 173, 152>>, <<215, 178, 157>>, <<218, 182, 162>>, <<221, 186, 168>>, <<224, 191, 173>>, <<227, 195, 178>>, <<230, 200, 184>>, <<232, 203, 188>>, <<234, 206, 192>>, <<236, 210, 196>>, <<238, 213, 200>>, <<240, 217, 204>>, <<242, 220, 208>>, <<244, 223, 212>>, <<246, 227, 216>>, <<248, 230, 220>>, <<250, 234, 225>>, <<250, 235, 227>>, <<250, 237, 230>>, <<250, 239, 233>>, <<250, 241, 235>>, <<251, 243, 238>>, <<251, 244, 241>>, <<251, 246, 243>>, <<251, 248, 246>>, <<251, 250, 249>>, <<252, 252, 252>>, <<250, 250, 252>>, <<248, 249, 252>>, <<246, 248, 252>>, <<244, 247, 252>>, <<242, 246, 252>>, <<240, 244, 252>>, <<238, 243, 252>>, <<236, 242, 252>>, <<234, 241, 252>>, <<232, 240, 252>>, <<228, 237, 250>>, <<225, 234, 249>>, <<221, 232, 247>>, <<218, 229, 246>>, <<214, 227, 244>>, <<211, 224, 243>>, <<207, 221, 241>>, <<204, 219, 240>>, <<200, 216, 238>>, <<197, 214, 237>>, <<192, 210, 234>>, <<187, 206, 232>>, <<182, 202, 229>>, <<177, 198, 227>>, <<172, 194, 224>>, <<167, 190, 222>>, <<162, 186, 219>>, <<157, 182, 217>>, <<152, 178, 214>>, <<148, 175, 212>>, <<142, 170, 208>>, <<136, 166, 205>>, <<130, 162, 202>>, <<125, 158, 199>>, <<119, 154, 196>>, <<113, 149, 193>>, <<108, 145, 190>>, <<102, 141, 187>>, <<96, 137, 184>>, <<91, 133, 181>>, <<82, 128, 176>>, <<74, 123, 172>>, <<65, 118, 168>>, <<57, 114, 164>>, <<48, 109, 160>>, <<40, 104, 156>>, <<31, 100, 152>>, <<23, 95, 148>>, <<14, 90, 144>>, <<6, 86, 140>>>>,
        boundaries |-> <<0, 10, 20, 30, 40, 50, 60, 70, 80, 90, 100, 110, 120, 130, 140, 150, 160, 170, 180, 190, 200, 210, 220, 230, 240, 250, 260, 270, 280, 290, 300, 310, 320, 330, 340, 350, 360, 370, 380, 390, 400, 410, 420, 430, 440, 450, 460, 470, 480, 490, 500, 510, 520, 530, 540, 550, 560, 570, 580, 590, 600, 610, 620, 630, 640, 650, 660, 670, 680, 690, 700, 710, 720, 730, 740, 750, 760, 770, 780, 790, 800, 810, 820, 830, 840, 850, 860, 870, 880, 890, 900, 910, 920, 930, 940, 950, 960, 970, 980, 990, 1000>>,
        classes |-> <<-9990, -10, 0, 10, 20, 30, 40, 50, 60, 70, 80, 90, 100, 110, 120, 130, 140, 150, 160, 170, 180, 190, 200, 210, 220, 230, 240, 250, 260, 270, 280, 290, 300, 310, 320, 330, 340, 350, 360, 370, 380, 390, 400, 410, 420, 430, 440, 450, 460, 470, 480, 490, 500, 510, 520, 530, 540, 550, 560, 570, 580, 590, 600, 610, 620, 630, 640, 650, 660, 670, 680, 690, 700, 710, 720, 730, 740, 750, 760, 770, 780, 790, 800, 810, 820, 830, 840, 850, 860, 870, 880, 890, 900, 910, 920, 930, 940, 950, 960, 970, 980, 990, 1000>>,
        continuous_coloring |-> FALSE])
    @@ (<<"H", "I">> :> [
        colors |-> <<<<255, 255, 255>>, <<255, 255, 255>>, <<255, 255, 242>>, <<255, 255, 242>>, <<255, 255, 242>>, <<255, 255, 242>>, <<255, 255, 242>>, <<255, 255, 128>>, <<255, 255, 77>>, <<255, 255, 38>>, <<255, 247, 13>>, <<255, 235, 13>>, <<255, 223, 13>>, <<252, 204, 13>>, <<252, 188, 13>>, <<252, 173, 13>>, <<250, 159, 12>>, <<247, 143, 7>>, <<247, 131, 7>>, <<245, 119, 10>>, <<245, 108, 10>>, <<242, 100, 12>>, <<242, 93, 12>>, <<242, 89, 12>>, <<245, 80, 10>>, <<245, 76, 10>>, <<247, 67, 7>>, <<247, 63, 7>>, <<250, 54, 5>>, <<250, 50, 5>>, <<252, 40, 3>>, <<252, 32, 3>>, <<255, 17, 0>>, <<252, 0, 0>>, <<250, 0, 0>>, <<245, 0, 0>>, <<242, 0, 0>>, <<237, 0, 0>>, <<235, 0, 0>>, <<230, 0, 0>>, <<227, 0, 0>>, <<222, 0, 0>>, <<219, 0, 0>>, <<214, 0, 0>>, <<209, 0, 0>>, <<207, 0, 0>>, <<201, 0, 0>>, <<199, 0, 0>>, <<194, 0, 0>>, <<191, 0, 0>>, <<186, 0, 0>>, <<184, 0, 0>>, <<179, 0, 0>>, <<173, 0, 0>>, <<168, 0, 0>>, <<163, 0, 0>>, <<158, 0, 0>>, <<153, 0, 0>>, <<148, 0, 0>>, <<143, 0, 0>>, <<138, 0, 0>>, <<133, 0, 0>>, <<128, 0, 0>>>>,
        boundaries |-> <<NegInf, 0, 240, 250, 260, 270, 280, 290, 300, 310, 320, 330, 340, 350, 360, 370, 380, 390, 400, 410, 420, 430, 440, 450, 460, 470, 480, 490, 500, 510, 520, 530, 540, 550, 560, 570, 580, 590, 600, 610, 620, 630, 640, 650, 660, 670, 680, 690, 700, 710, 720, 730, 740, 760, 780, 810, 840, 870, 900, 930, 960, 1000>>,
        classes |-> <<-9990, -10, 0, 240, 250, 260, 270, 280, 290, 300, 310, 320, 330, 340, 350, 360, 370, 380, 390, 400, 410, 420, 430, 440, 450, 460, 470, 480, 490, 500, 510, 520, 530, 540, 550, 560, 570, 580, 590, 600, 610, 620, 630, 640, 650, 660, 670, 680, 690, 700, 710, 720, 730, 740, 760, 780, 810, 840, 870, 900, 930, 960, 1000>>,
        continuous_coloring |-> FALSE])
    @@ (<<"U", "T", "C", "I">> :> [
        colors |-> <<<<20, 20, 102>>, <<20, 20, 102>>, <<20, 21, 103>>, <<20, 21, 104>>, <<20, 22, 105>>, <<20, 22, 106>>, <<20, 23, 106>>, <<20, 23, 107>>, <<20, 24, 108>>, <<20, 24, 109>>, <<20, 25, 110>>, <<20, 25, 110>>, <<20, 26, 111>>, <<20, 26, 112>>, <<20, 27, 113>>, <<20, 27, 114>>, <<20, 28, 114>>, <<20, 28, 115>>, <<20, 29, 116>>, <<20, 29, 117>>, <<20, 30, 118>>, <<20, 30, 118>>, <<20, 31, 119>>, <<20, 31, 120>>, <<20, 32, 121>>, <<20, 32, 122>>, <<20, 33, 122>>, <<20, 33, 123>>, <<20, 34, 124>>, <<20, 34, 125>>, <<20, 35, 126>>, <<20, 36, 126>>, <<20, 36, 127>>, <<20, 37, 128>>, <<20, 37, 129>>, <<20, 38, 130>>, <<20, 38, 130>>, <<20, 39, 131>>, <<20, 39, 132>>, <<20, 40, 133>>, <<20, 40, 134>>, <<20, 41, 134>>, <<20, 41, 135>>, <<20, 42, 136>>, <<20, 42, 137>>, <<20, 43, 138>>, <<20, 43, 138>>, <<20, 44, 139>>, <<20, 44, 140>>, <<20, 45, 141>>, <<20, 45, 142>>, <<20, 46, 142>>, <<20, 46, 143>>, <<20, 47, 144>>, <<20, 47, 145>>, <<20, 48, 146>>, <<20, 48, 146>>, <<20, 49, 147>>, <<20, 49, 148>>, <<20, 50, 149>>, <<21, 51, 150>>, <<21, 55, 152>>, <<21, 59, 155>>, <<22, 63, 158>>, <<22, 67, 161>>, <<22, 71, 163>>, <<23, 75, 166>>, <<23, 79, 169>>, <<24, 83, 172>>, <<24, 87, 174>>, <<24, 91, 177>>, <<25, 95, 180>>, <<25, 99, 183>>, <<26, 103, 186>>, <<30, 108, 187>>, <<34, 113, 189>>, <<38, 119, 191>>, <<42, 124, 193>>, <<47, 129, 195>>, <<51, 135, 197>>, <<55, 140, 199>>, <<59, 145, 200>>, <<63, 151, 202>>, <<68, 156, 204>>, <<72, 161, 206>>, <<76, 167, 208>>, <<80, 172, 210>>, <<85, 178, 212>>, <<92, 183, 213>>, <<99, 189, 214>>, <<106, 194, 216>>, <<114, 200, 217>>, <<121, 205, 219>>, <<128, 211, 220>>, <<136, 216, 222>>, <<143, 222, 223>>, <<150, 227, 225>>, <<158, 233, 226>>, <<165, 238, 228>>, <<172, 244, 229>>, <<180, 250, 231>>, <<185, 250, 229>>, <<191, 250, 227>>, <<197, 250, 225>>, <<203, 250, 223>>, <<208, 250, 222>>, <<214, 250, 220>>, <<220, 250, 218>>, <<226, 250, 216>>, <<232, 250, 215>>, <<233, 248, 206>>, <<234, 247, 198>>, <<236, 246, 190>>, <<237, 244, 181>>, <<238, 243, 173>>, <<240, 242, 165>>, <<241, 240, 156>>, <<242, 239, 148>>, <<244, 238, 140>>, <<245, 237, 132>>, <<246, 235, 123>>, <<248, 234, 115>>, <<249, 233, 107>>, <<250, 231, 98>>, <<252, 230, 90>>, <<253, 229, 82>>, <<255, 228, 74>>, <<255, 213, 69>>, <<255, 199, 64>>, <<255, 185, 60>>, <<255, 171, 55>>, <<255, 157, 50>>, <<255, 143, 46>>, <<254, 129, 42>>, <<254, 116, 39>>, <<253, 103, 35>>, <<253, 89, 32>>, <<252, 76, 28>>, <<252, 63, 25>>, <<243, 60, 24>>, <<235, 57, 24>>, <<226, 54, 24>>, <<218, 51, 24>>, <<209, 48, 24>>, <<201, 45, 24>>, <<192, 42, 24>>, <<184, 40, 24>>, <<182, 39, 23>>, <<180, 38, 23>>, <<178, 37, 22>>, <<176, 37, 22>>, <<175, 36, 21>>, <<173, 35, 21>>, <<171, 34, 20>>, <<169, 34, 20>>, <<168, 33, 20>>, <<166, 32, 19>>, <<164, 31, 19>>, <<162, 31, 18>>, <<161, 30, 18>>, <<159, 29, 17>>, <<157, 28, 17>>, <<155, 28, 16>>, <<154, 27, 16>>, <<152, 26, 16>>, <<150, 25, 15>>, <<148, 25, 15>>, <<147, 24, 14>>, <<145, 23, 14>>, <<143, 22, 13>>, <<141, 22, 13>>, <<140, 21, 12>>, <<138, 20, 12>>, <<136, 20, 12>>, <<134, 19, 11>>, <<132, 18, 11>>, <<131, 17, 10>>, <<129, 17, 10>>, <<127, 16, 9>>, <<125, 15, 9>>, <<124, 14, 8>>, <<122, 14, 8>>, <<120, 13, 8>>, <<118, 12, 7>>, <<117, 11, 7>>, <<115, 11, 6>>, <<113, 10, 6>>, <<111, 9, 5>>, <<110, 8, 5>>, <<108, 8, 4>>, <<106, 7, 4>>, <<104, 6, 4>>, <<103, 5, 3>>, <<101, 5, 3>>, <<99, 4, 2>>, <<97, 3, 2>>, <<96, 2, 1>>, <<94, 2, 1>>, <<92, 1, 0>>, <<90, 0, 0>>, <<89, 0, 0>>>>,
        boundaries |-> <<-2000, -990, -980, -970, -960, -950, -940, -930, -920, -910, -900, -890, -880, -870, -860, -850, -840, -830, -820, -810, -800, -790, -780, -770, -760, -750, -740, -730, -720, -710, -700, -690, -680, -670, -660, -650, -640, -630, -620, -610, -600, -590, -580, -570, -560, -550, -540, -530, -520, -510, -500, -490, -480, -470, -460, -450, -440, -430, -420, -410, -400, -390, -380, -370, -360, -350, -340, -330, -320, -310, -300, -290, -280, -270, -260, -250, -240, -230, -220, -210, -200, -190, -180, -170, -160, -150, -140, -130, -120, -110, -100, -90, -80, -70, -60, -50, -40, -30, -20, -10, 0, 10, 20, 30, 40, 50, 60, 70, 80, 90, 100, 110, 120, 130, 140, 150, 160, 170, 180, 190, 200, 210, 220, 230, 240, 250, 260, 270, 280, 290, 300, 310, 320, 330, 340, 350, 360, 370, 380, 390, 400, 410, 420, 430, 440, 450, 460, 470, 480, 490, 500, 510, 520, 530, 540, 550, 560, 570, 580, 590, 600, 610, 620, 630, 640, 650, 660, 670, 680, 690, 700, 710, 720, 730, 740, 750, 760, 770, 780, 790, 800, 810, 820, 830, 840, 850, 860, 870, 880, 890, 900, 910, 920, 930, 940, 950, 960, 970, 980, 990, 2000>>,
        classes |-> <<0, 10, 20, 30, 40, 50, 60, 70, 80, 90, 100, 110, 120, 130, 140, 150, 160, 170, 180, 190, 200, 210, 220, 230, 240, 250, 260, 270, 280, 290, 300, 310, 320, 330, 340, 350, 360, 370, 380, 390, 400, 410, 420, 430, 440, 450, 460, 470, 480, 490, 500, 510, 520, 530, 540, 550, 560, 570, 580, 590, 600, 610, 620, 630, 640, 650, 660, 670, 680, 690, 700, 710, 720, 730, 740, 750, 760, 770, 780, 790, 800, 810, 820, 830, 840, 850, 860, 870, 880, 890, 900, 910, 920, 930, 940, 950, 960, 970, 980, 990, 1000, 1010, 1020, 1030, 1040, 1050, 1060, 1070, 1080, 1090, 1100, 1110, 1120, 1130, 1140, 1150, 1160, 1170, 1180, 1190, 1200, 1210, 1220, 1230, 1240, 1250, 1260, 1270, 1280, 1290, 1300, 1310, 1320, 1330, 1340, 1350, 1360, 1370, 1380, 1390, 1400, 1410, 1420, 1430, 1440, 1450, 1460, 1470, 1480, 1490, 1500, 1510, 1520, 1530, 1540, 1550, 1560, 1570, 1580, 1590, 1600, 1610, 1620, 1630, 1640, 1650, 1660, 1670, 1680, 1690, 1700, 1710, 1720, 1730, 1740, 1750, 1760, 1770, 1780, 1790, 1800, 1810, 1820, 1830, 1840, 1850, 1860, 1870, 1880, 1890, 1900, 1910, 1920, 1930, 1940, 1950, 1960, 1970, 1980, 1990>>,
        continuous_coloring |-> FALSE])
    @@ (<<"F", "W", "I">> :> [
        colors |-> <<<<255, 255, 255>>, <<255, 255, 255>>, <<75, 167, 64>>, <<255, 244, 26>>, <<252, 151, 50>>, <<255, 41, 13>>, <<184, 0, 0>>, <<143, 43, 123>>>>,
        boundaries |-> <<10, 20, 30, 40, 50, 60>>,
        classes |-> <<-9990, -10, 10, 20, 30, 40, 50, 60>>,
        continuous_coloring |-> FALSE])
    @@ (<<"D", "F", "M", "1", "0", "H">> :> [
        colors |-> <<<<255, 255, 255>>, <<255, 255, 255>>, <<115, 0, 0>>, <<127, 7, 0>>, <<140, 15, 0>>, <<153, 23, 0>>, <<173, 32, 0>>, <<193, 41, 0>>, <<214, 50, 0>>, <<224, 76, 10>>, <<234, 102, 21>>, <<245, 128, 32>>, <<247, 158, 45>>, <<249, 188, 58>>, <<252, 219, 71>>, <<253, 226, 94>>, <<254, 234, 117>>, <<255, 242, 140>>, <<255, 246, 165>>, <<255, 250, 191>>, <<255, 255, 217>>, <<223, 231, 214>>, <<192, 207, 211>>, <<161, 183, 209>>, <<136, 164, 202>>, <<111, 146, 196>>, <<86, 127, 190>>, <<62, 109, 184>>, <<55, 98, 174>>, <<49, 87, 164>>, <<43, 76, 154>>, <<37, 65, 144>>, <<31, 55, 134>>, <<27, 46, 125>>, <<23, 37, 116>>, <<19, 28, 107>>, <<15, 19, 98>>, <<11, 11, 89>>>>,
        boundaries |-> <<-9, 10, 20, 30, 40, 50, 60, 70, 80, 90, 100, 110, 120, 130, 140, 150, 160, 170, 180, 190, 200, 210, 220, 230, 240, 250, 260, 270, 280, 290, 300, 310, 320, 330, 340, 350>>,
        classes |-> <<-9990, -10, 0, 10, 20, 30, 40, 50, 60, 70, 80, 90, 100, 110, 120, 130, 140, 150, 160, 170, 180, 190, 200, 210, 220, 230, 240, 250, 260, 270, 280, 290, 300, 310, 320, 330, 340, 350>>,
        continuous_coloring |-> FALSE])

\* palettes dictionaries a caller hands to process_raster_for_layout for
\* gradients: two colours over [-40, 0, 40]; three and four colours over the
\* same classes; a gradient whose classes end where they start; a gradient
\* behind the two no-data classes
PALETTES_GRADIENT ==
       (<<"A", "W", "P">> :> [
        colors |-> <<<<0, 0, 0>>, <<255, 255, 255>>>>,
        boundaries |-> <<-400, 0, 400>>,
        classes |-> <<-400, 0, 400>>,
        continuous_coloring |-> TRUE])
    @@ (<<"F", "W", "I">> :> [
        colors |-> <<<<255, 255, 255>>, <<0, 0, 0>>, <<255, 255, 255>>>>,
        boundaries |-> <<-400, 0, 400>>,
        classes |-> <<-400, 0, 400>>,
        continuous_coloring |-> TRUE])
    @@ (<<"H", "I">> :> [
        colors |-> <<<<255, 255, 255>>, <<0, 0, 0>>, <<0, 0, 0>>, <<255, 255, 255>>>>,
        boundaries |-> <<-400, 0, 400>>,
        classes |-> <<-400, 0, 400>>,
        continuous_coloring |-> TRUE])
    @@ (<<"U", "T", "C", "I">> :> [
        colors |-> <<<<255, 255, 255>>, <<0, 0, 0>>, <<255, 255, 255>>>>,
        boundaries |-> <<-400, 400>>,
        classes |-> <<-400, 400>>,
        continuous_coloring |-> TRUE])
    @@ (<<"A", "W", "D">> :> [
        colors |-> <<<<255, 255, 255>>, <<255, 255, 255>>, <<255, 255, 255>>, <<0, 0, 0>>,
                     <<100, 50, 0>>, <<255, 255, 255>>>>,
        boundaries |-> <<-9990, -10, 0, 200, 400>>,
        classes |-> <<-9990, -10, 0, 200, 400>>,
        continuous_coloring |-> TRUE])

PaletteTable(name) ==
    CASE name = "V1" -> PALETTES_V1
      [] name = "V2" -> PALETTES_V2
      [] OTHER -> PALETTES_GRADIENT

\* the indicators process_raster_for_layout hands to the renderer as they are
NotReclassified == {<<"A", "W", "P">>, <<"F", "W", "I">>}

(***************************************************************************)
(* reclassify_raster                                                       *)
(***************************************************************************)
\* np.digitize(x, bins, right=True) over increasing bins is
\* searchsorted(bins, x, side="left"): the number of bins strictly below x
DigitizeLeftClosed(x, bins) ==
    Cardinality({j \in 1..Len(bins) : bins[j] <= x})

Digitize(x, bins) ==
    Cardinality({j \in 1..Len(bins) : bins[j] < x})

\* ndarray.astype(int16) of an integer: wraps to 16 bits
AsInt16(n) == ((n + 32768) % 65536) - 32768

\* a class id (an integer) as a raster value
ClassValue(c) == c * 10

\* the cell reclassify_raster writes for the source cell x
ReclassifiedCell(x, boundaries) ==
    ClassValue(AsInt16(Digitize(x, boundaries) - 1))

\* nodata_value = src.nodata if src.nodata is not None else -999.0
NoDataOrDefault(nodata) ==
    IF nodata # None THEN nodata[1] ELSE DefaultNoData

ReclassifyRaster ==
    /\ cpc = "loaded"
    /\ raster_type \notin NotReclassified
    /\ rec_data' = Some(ReclassifiedCell(
                        raster_data,
                        PaletteTable(palettes)[raster_type].boundaries))
    /\ rec_nodata' = Some(NoDataOrDefault(src_nodata))
    /\ cpc' = "reclassified"
    /\ UNCHANGED <<xvars, palettes, raster_type, raster_data, src_nodata,
                   continuous, image, lvars, uvars>>

(***************************************************************************)
(* create_visualization_countinious_with_shapefiles                        *)
(***************************************************************************)
\* mask = (raster_data == -999), or-ed with raster_data == nodata_value when
\* the raster stores one; in continuous mode the array that is drawn is
\* masked by no_data_mask = (raster_data == -999) | (raster_data == -1)
NoDataMask(x, nodata, is_continuous) ==
    IF is_continuous
    THEN x = -9990 \/ x = -10
    ELSE x = -9990 \/ (nodata # None /\ x = nodata[1])

\* np.digitize(x, bins) with the default right=False: the number of bins
\* at or below x
DigitizeDefault(x, bins) ==
    Cardinality({j \in 1..Len(bins) : bins[j] <= x})

\* BoundaryNorm(boundaries, ncolors, extend='max').__init__ raises ValueError
\* for fewer than two boundaries, or when the len(boundaries) - 1 bins plus
\* the one 'max' extension exceed ncolors
BoundaryNormRaises(boundaries, ncolors) ==
    Len(boundaries) < 2 \/ Len(boundaries) > ncolors

\* BoundaryNorm(boundaries, ncolors, extend='max').__call__(x), clip=False:
\* digitize(x) - 1, stretched linearly onto 0..ncolors-1 when there are more
\* colours than regions and cast to int16 (truncation; the products of the
\* palettes at hand are no integers, so the float product truncates like
\* the exact one); -1 below vmin and ncolors from vmax on
BoundaryNorm(x, boundaries, ncolors) ==
    LET n_regions == Len(boundaries)
        iret == DigitizeDefault(x, boundaries) - 1
        stretched == IF ncolors > n_regions
                     THEN ((ncolors - 1) * iret) \div (n_regions - 1)
                     ELSE iret
    IN  IF x < boundaries[1] THEN -1
        ELSE IF x >= boundaries[Len(boundaries)] THEN ncolors
        ELSE AsInt16(stretched)

\* ListedColormap(colors)(i) for an integer i: the i-th colour (from 0); the
\* under and over colours default to the first and the last colour
ListedColormap(i, ncolors) ==
    IF i < 0 THEN 0 ELSE IF i > ncolors - 1 THEN ncolors - 1 ELSE i

\* Normalize(vmin=boundaries[1], vmax=boundaries[-1])(x) of lines 166-176:
\* the fraction (x - vmin) / (vmax - vmin), as <<numerator, denominator>>
Normalize(x, boundaries) ==
    <<x - boundaries[2], boundaries[Len(boundaries)] - boundaries[2]>>

\* lines 168-169: positions = [0] + [(b - min_val) / (max_val - min_val) for
\* b in boundaries[1:]], kept as numerators over max_val - min_val
Positions(boundaries) ==
    [k \in 1..Len(boundaries) |->
        IF k = 1 THEN 0 ELSE boundaries[k] - boundaries[2]]

\* lines 172-173: list(zip(positions, normalized_colors[1:])), as long as the
\* shorter of the two
GradientPairs(colors_list, boundaries) ==
    LET m == IF Len(boundaries) < Len(colors_list) - 1
             THEN Len(boundaries) ELSE Len(colors_list) - 1
    IN  [k \in 1..m |-> [x |-> Positions(boundaries)[k],
                         color |-> colors_list[k + 1]]]

\* the continuous branch does not draw: IndexError of boundaries[1] for one
\* boundary, ZeroDivisionError for max_val = min_val, IndexError of from_list
\* for an empty list of pairs, ValueError of Normalize for vmin > vmax, and
\* ValueError of the colormap's lookup table when the mapping points do not
\* start at 0, end at 1 and increase
ContinuousRaises(colors_list, boundaries) ==
    IF Len(boundaries) < 2 THEN TRUE
    ELSE LET den == boundaries[Len(boundaries)] - boundaries[2]
             pairs == GradientPairs(colors_list, boundaries)
         IN  \/ den <= 0
             \/ pairs = << >>
             \/ pairs[1].x # 0
             \/ pairs[Len(pairs)].x # den
             \/ \E k \in 1..(Len(pairs) - 1) : pairs[k + 1].x < pairs[k].x

\* the number of entries of the colormap's lookup table
LutSize == 256

\* LinearSegmentedColormap.from_list(name, pairs)(t) for t = num / den: the
\* entry int(t * N) of the lookup table (the first entry below 0, the last
\* from 1 on); entry i of the table lies at i / (N - 1) and is interpolated
\* linearly, channel by channel, between the mapping points around it; the
\* first and the last entry are the first and the last colour.  Channels
\* are bytes, truncated.
LinearSegmentedColormap(t, pairs) ==
    LET num == t[1]
        den == t[2]
        i == IF num < 0 THEN 0
             ELSE IF num >= den THEN LutSize - 1
             ELSE (num * LutSize) \div den
        hi == CHOOSE k \in 1..Len(pairs) :
                 /\ pairs[k].x * (LutSize - 1) >= i * den
                 /\ \A j \in 1..(k - 1) : pairs[j].x * (LutSize - 1) < i * den
        lo == hi - 1
        span == (pairs[hi].x - pairs[lo].x) * (LutSize - 1)
    IN  IF i = 0 THEN pairs[1].color
        ELSE IF i = LutSize - 1 THEN pairs[Len(pairs)].color
        ELSE [ch \in 1..3 |->
                (pairs[lo].color[ch] * span
                   + (i * den - pairs[lo].x * (LutSize - 1))
                        * (pairs[hi].color[ch] - pairs[lo].color[ch]))
                \div span]

\* the raster the renderer is given: the reclassified one when there is one
RenderedData == IF rec_data # None THEN rec_data[1] ELSE raster_data
RenderedNoData == IF rec_data # None THEN rec_nodata ELSE src_nodata

\* lines 144-193 for the cell.  process_raster_for_layout passes the
\* palette's colors as colors_list and its classes as boundaries.  color is
\* the index (from 0) into colors_list of the colour drawn in discrete mode,
\* position the place on the gradient in continuous mode.
CreateVisualization ==
    /\ \/ cpc = "reclassified"
       \/ cpc = "loaded" /\ raster_type \in NotReclassified
       \/ cpc = "direct"
    /\ LET palette == PaletteTable(palettes)[raster_type]
           colors_list == palette.colors
           boundaries == palette.classes
       IN  IF \/ ~continuous /\ BoundaryNormRaises(boundaries, Len(colors_list))
              \/ continuous /\ ContinuousRaises(colors_list, boundaries)
           THEN /\ image' = None
                /\ cpc' = "render_error"
           ELSE /\ image' = Some(
                      [masked |-> NoDataMask(RenderedData, RenderedNoData,
                                             continuous),
                       color |-> IF continuous THEN None
                                 ELSE Some(ListedColormap(
                                        BoundaryNorm(RenderedData, boundaries,
                                                     Len(colors_list)),
                                        Len(colors_list))),
                       position |-> IF continuous
                                    THEN Some(Normalize(RenderedData,
                                                        boundaries))
                                    ELSE None,
                       rgb |-> IF continuous
                               THEN LinearSegmentedColormap(
                                        Normalize(RenderedData, boundaries),
                                        GradientPairs(colors_list, boundaries))
                               ELSE colors_list[ListedColormap(
                                        BoundaryNorm(RenderedData, boundaries,
                                                     Len(colors_list)),
                                        Len(colors_list)) + 1]])
                /\ cpc' = "rendered"
    /\ UNCHANGED <<xvars, palettes, raster_type, raster_data, src_nodata, rec_data,
                   rec_nodata, continuous, lvars, uvars>>

\* the cell values tried with a palette: around every boundary, the no-data
\* sentinels, and -inf itself
CellValues(boundaries) ==
    { v \in UNION { (boundaries[j] - MaxOffset)..(boundaries[j] + MaxOffset)
                      : j \in 1..Len(boundaries) } : v >= NegInf }
    \cup {-9990, -10, 0}

NoDataValues == {None, Some(-9990), Some(-10), Some(0)}


(***************************************************************************)
(* Python str and list operations used on file names.                      *)
(***************************************************************************)
Min(a, b) == IF a < b THEN a ELSE b
Max(a, b) == IF a > b THEN a ELSE b

\* s[lo:hi] for lo >= 0; a negative hi counts from the end
SliceIndex(n, len) == IF n < 0 THEN Max(len + n, 0) ELSE Min(n, len)
Slice(s, lo, hi) == SubSeq(s, SliceIndex(lo, Len(s)) + 1, SliceIndex(hi, Len(s)))

\* s.split(sep) for a one-character sep
RECURSIVE SplitFrom(_, _, _, _)
SplitFrom(s, sep, cur, acc) ==
    IF s = << >> THEN Append(acc, cur)
    ELSE IF Head(s) = sep
         THEN SplitFrom(Tail(s), sep, << >>, Append(acc, cur))
         ELSE SplitFrom(Tail(s), sep, Append(cur, Head(s)), acc)
Split(s, sep) == SplitFrom(s, sep, << >>, << >>)

\* sep.join(parts)
RECURSIVE Join(_, _)
Join(parts, sep) ==
    IF parts = << >> THEN << >>
    ELSE IF Len(parts) = 1 THEN parts[1]
    ELSE parts[1] \o <<sep>> \o Join(Tail(parts), sep)

\* sub in s
Contains(sub, s) ==
    \E i \in 1..(Len(s) - Len(sub) + 1) : SubSeq(s, i, i + Len(sub) - 1) = sub

\* s.startswith(prefix)
StartsWith(s, prefix) ==
    Len(s) >= Len(prefix) /\ SubSeq(s, 1, Len(prefix)) = prefix

Digits == <<"0", "1", "2", "3", "4", "5", "6", "7", "8", "9">>
IsDigit(c) == \E d \in 1..10 : Digits[d] = c
DigitValue(c) == (CHOOSE d \in 1..10 : Digits[d] = c) - 1

\* int(s) of a non-empty string of digits
RECURSIVE DecimalValue(_)
DecimalValue(s) ==
    IF s = << >> THEN 0
    ELSE 10 * DecimalValue(SubSeq(s, 1, Len(s) - 1)) + DigitValue(s[Len(s)])

\* str(n) for n >= 0
RECURSIVE IntToStr(_)
IntToStr(n) ==
    IF n < 10 THEN <<Digits[n + 1]>>
    ELSE IntToStr(n \div 10) \o <<Digits[(n % 10) + 1]>>

AllDigits(s) == \A i \in 1..Len(s) : IsDigit(s[i])

(***************************************************************************)
(* datetime.strptime(token, "%Y-%m-%d"): << >> stands for ValueError,      *)
(* <<date>> for the parsed date, a date being <<year, month, day>>.        *)
(* %Y takes four digits, %m and %d one or two; the fields must form a date *)
(* of the proleptic Gregorian calendar from year 1 on.                     *)
(***************************************************************************)
IsLeap(y) == (y % 4 = 0 /\ y % 100 # 0) \/ y % 400 = 0
DaysInMonth(y, m) ==
    IF m = 2 THEN (IF IsLeap(y) THEN 29 ELSE 28)
    ELSE IF m \in {4, 6, 9, 11} THEN 30 ELSE 31

Strptime(token) ==
    LET f == Split(token, "-")
    IN  IF /\ Len(f) = 3
           /\ Len(f[1]) = 4 /\ AllDigits(f[1])
           /\ Len(f[2]) \in {1, 2} /\ AllDigits(f[2])
           /\ Len(f[3]) \in {1, 2} /\ AllDigits(f[3])
        THEN LET y == DecimalValue(f[1])
                 m == DecimalValue(f[2])
                 d == DecimalValue(f[3])
             IN  IF y >= 1 /\ m \in 1..12 /\ d >= 1 /\ d <= DaysInMonth(y, m)
                 THEN Some(<<y, m, d>>)
                 ELSE None
        ELSE None

\* datetime.min
DatetimeMin == <<1, 1, 1>>

\* a < b on dates
DateLess(a, b) ==
    \/ a[1] < b[1]
    \/ a[1] = b[1] /\ a[2] < b[2]
    \/ a[1] = b[1] /\ a[2] = b[2] /\ a[3] < b[3]

Last(s) == s[Len(s)]

Range(s) == {s[i] : i \in 1..Len(s)}

(***************************************************************************)
(* The background-layout mapping: a Python dict, kept in insertion order   *)
(* as a sequence of [key, paths].  A path is represented by its stem.      *)
(***************************************************************************)
HasKey(d, k) == \E i \in 1..Len(d) : d[i].key = k
Lookup(d, k) == d[CHOOSE i \in 1..Len(d) : d[i].key = k].paths
AppendTo(d, k, p) ==
    IF HasKey(d, k)
    THEN [i \in 1..Len(d) |->
            IF d[i].key = k
            THEN [key |-> k, paths |-> Append(d[i].paths, p)]
            ELSE d[i]]
    ELSE Append(d, [key |-> k, paths |-> <<p>>])

(***************************************************************************)
(* process_raster_for_layout                                               *)
(***************************************************************************)
\* the background type without the [:-2] of the AW branch
BackgroundTypeNoStrip(raster_parts_name) ==
    LET t == raster_parts_name[1]
    IN  IF Contains(<<"A", "W">>, t)
        THEN Join(<<raster_parts_name[1], raster_parts_name[2]>>, "_")
        ELSE IF Contains(<<"F", "W", "I">>, t)
             THEN <<"F", "W", "I", "_", "G", "e", "n", "Z">>
             ELSE raster_parts_name[1]

\* the background type with the indicator key itself in the FWI branch
BackgroundTypeNoGenZ(raster_parts_name) ==
    LET t == raster_parts_name[1]
    IN  IF Contains(<<"A", "W">>, t)
        THEN Slice(Join(<<raster_parts_name[1], raster_parts_name[2]>>, "_"),
                   0, -2)
        ELSE raster_parts_name[1]

\* lines 84-91; the AW branch reads raster_parts_name[1] (the second token)
BackgroundType(raster_parts_name) ==
    LET t == raster_parts_name[1]
    IN  IF Contains(<<"A", "W">>, t)
        THEN Slice(Join(<<raster_parts_name[1], raster_parts_name[2]>>, "_"),
                   0, -2)
        ELSE IF Contains(<<"F", "W", "I">>, t)
             THEN <<"F", "W", "I", "_", "G", "e", "n", "Z">>
             ELSE raster_parts_name[1]

\* the handler on the next raster of the pass.  A raise ends the pass
\* (lpc = "error"): ValueError before anything is done for an unknown
\* palette, IndexError after the rendering when an AW stem has one token.
\* every raster type taken as having a palette
PaletteAssumed(rtype, table) == TRUE

\* line 57: raster_type in palettes
PaletteFound(rtype, table) == rtype \in DOMAIN table

ProcessRasterForLayout ==
    /\ lpc = "processing"
    /\ rasters # << >>
    /\ LET raster_path == Head(rasters)
           raster_parts_name == Split(raster_path, "_")
           rtype == raster_parts_name[1]
       IN  IF ~PaletteFound(rtype, PaletteTable(palettes))
           THEN /\ lpc' = "error"
                /\ UNCHANGED <<xvars, rasters, rendered, list_for_background_layout>>
           ELSE /\ rendered' = Append(rendered,
                        [path |-> raster_path,
                         palette |-> rtype,
                         reclassified |-> rtype \notin NotReclassified])
                /\ IF Contains(<<"A", "W">>, rtype) /\ Len(raster_parts_name) < 2
                   THEN /\ lpc' = "error"
                        /\ UNCHANGED <<xvars, rasters, list_for_background_layout>>
                   ELSE /\ list_for_background_layout' =
                               AppendTo(list_for_background_layout,
                                        BackgroundType(raster_parts_name),
                                        raster_path)
                        /\ rasters' = Tail(rasters)
                        /\ lpc' = lpc
    /\ UNCHANGED <<xvars, renamed, backgrounds, composites, not_found, cvars,
                   uvars>>

(***************************************************************************)
(* rename_and_copy_images                                                  *)
(***************************************************************************)
\* extract_date with datetime.max for a stem without a date
ExtractDateMax(path) ==
    LET parsed == Strptime(Last(Split(path, "_")))
    IN  IF parsed # None THEN parsed[1] ELSE <<9999, 12, 31>>

\* extract_date: the date of the last "_" token, datetime.min without one
ExtractDate(path) ==
    LET parsed == Strptime(Last(Split(path, "_")))
    IN  IF parsed # None THEN parsed[1] ELSE DatetimeMin

\* sorted(paths, key=extract_date): stable, ascending
RECURSIVE SortedByDate(_)
SortedByDate(paths) ==
    IF paths = << >> THEN << >>
    ELSE LET x == Last(paths)
             s == SortedByDate(SubSeq(paths, 1, Len(paths) - 1))
             n == Cardinality({i \in 1..Len(s) :
                                 ~DateLess(ExtractDate(x), ExtractDate(s[i]))})
         IN  SubSeq(s, 1, n) \o <<x>> \o SubSeq(s, n + 1, Len(s))

\* lines 185-191: the output stem of the i-th image of a group
NewName(src_path, i) ==
    LET parts == Split(src_path, "_")
        name_parts == SubSeq(parts, 1, Len(parts) - 1)
        rewritten == [a \in 1..Len(name_parts) |->
                        IF StartsWith(name_parts[a], <<"D", "F", "M">>)
                           /\ Len(name_parts[a]) > 3
                        THEN <<"D", "F", "M", "_">>
                                 \o Slice(name_parts[a], 3, Len(name_parts[a]))
                        ELSE name_parts[a]]
    IN  Join(rewritten, "_") \o <<"_">> \o IntToStr(i)

\* the copies made for one group, in the order they are made
CopiesOfGroup(indicator, paths) ==
    LET sorted_paths == SortedByDate(paths)
    IN  [k \in 1..Len(sorted_paths) |->
            [indicator |-> indicator,
             src |-> sorted_paths[k],
             i |-> k - 1,
             dst |-> NewName(sorted_paths[k], k - 1)]]

RECURSIVE CopiesOfLayout(_)
CopiesOfLayout(layout) ==
    IF layout = << >> THEN << >>
    ELSE CopiesOfGroup(layout[1].key, layout[1].paths)
             \o CopiesOfLayout(Tail(layout))

\* generate_palette_images calls it once the loop over the rasters is over
RenameAndCopyImages ==
    /\ lpc = "processing"
    /\ rasters = << >>
    /\ renamed' = CopiesOfLayout(list_for_background_layout)
    /\ lpc' = "renamed"
    /\ UNCHANGED <<xvars, rasters, rendered, not_found, uvars, backgrounds,
                   list_for_background_layout, composites, cvars>>


(***************************************************************************)
(* The file names the model runs on.                                       *)
(***************************************************************************)
\* stems of the rasters handed to the rendering pass
RasterStems ==
    {
      \* AWP_0-40cm_2024-05-01
      <<"A", "W", "P", "_", "0", "-", "4", "0", "c", "m", "_", "2", "0", "2", "4", "-", "0", "5", "-", "0", "1">>,
      \* AWP_0-40_2024-05-01
      <<"A", "W", "P", "_", "0", "-", "4", "0", "_", "2", "0", "2", "4", "-", "0", "5", "-", "0", "1">>,
      \* FWI_GenZ_2024-05-01
      <<"F", "W", "I", "_", "G", "e", "n", "Z", "_", "2", "0", "2", "4", "-", "0", "5", "-", "0", "1">>,
      \* UTCI_2024-03-01
      <<"U", "T", "C", "I", "_", "2", "0", "2", "4", "-", "0", "3", "-", "0", "1">>,
      \* UTCI_2024-01-15
      <<"U", "T", "C", "I", "_", "2", "0", "2", "4", "-", "0", "1", "-", "1", "5">>,
      \* UTCI_2024-02-10
      <<"U", "T", "C", "I", "_", "2", "0", "2", "4", "-", "0", "2", "-", "1", "0">>,
      \* UTCI_0001-01-01
      <<"U", "T", "C", "I", "_", "0", "0", "0", "1", "-", "0", "1", "-", "0", "1">>,
      \* UTCI_latest
      <<"U", "T", "C", "I", "_", "l", "a", "t", "e", "s", "t">>,
      \* XYZ_2024-05-01
      <<"X", "Y", "Z", "_", "2", "0", "2", "4", "-", "0", "5", "-", "0", "1">>,
      \* AWR
      <<"A", "W", "R">>
    }

\* stems of the rasters of the runs that go on to the templates
SeriesStems ==
    {
      \* AWP_0-40cm_2024-05-01
      <<"A", "W", "P", "_", "0", "-", "4", "0", "c", "m", "_", "2", "0", "2", "4", "-", "0", "5", "-", "0", "1">>,
      \* FWI_GenZ_2024-05-01
      <<"F", "W", "I", "_", "G", "e", "n", "Z", "_", "2", "0", "2", "4", "-", "0", "5", "-", "0", "1">>,
      \* UTCI_2024-03-01
      <<"U", "T", "C", "I", "_", "2", "0", "2", "4", "-", "0", "3", "-", "0", "1">>,
      \* UTCI_2024-01-15
      <<"U", "T", "C", "I", "_", "2", "0", "2", "4", "-", "0", "1", "-", "1", "5">>,
      \* HI_max_2024-05-01
      <<"H", "I", "_", "m", "a", "x", "_", "2", "0", "2", "4", "-", "0", "5", "-", "0", "1">>,
      \* UTCI_latest
      <<"U", "T", "C", "I", "_", "l", "a", "t", "e", "s", "t">>
    }

\* stems of rasters of one indicator with several variants, and of rasters
\* without a date token
GroupStems ==
    {
      \* HI_max_2024-05-01
      <<"H", "I", "_", "m", "a", "x", "_", "2", "0", "2", "4", "-", "0", "5", "-", "0", "1">>,
      \* HI_min_2024-05-01
      <<"H", "I", "_", "m", "i", "n", "_", "2", "0", "2", "4", "-", "0", "5", "-", "0", "1">>,
      \* HI_max_2024-06-01
      <<"H", "I", "_", "m", "a", "x", "_", "2", "0", "2", "4", "-", "0", "6", "-", "0", "1">>,
      \* UTCI_2024-05-01
      <<"U", "T", "C", "I", "_", "2", "0", "2", "4", "-", "0", "5", "-", "0", "1">>,
      \* UTCI
      <<"U", "T", "C", "I">>,
      \* HI
      <<"H", "I">>,
      \* AWP_0-40cm
      <<"A", "W", "P", "_", "0", "-", "4", "0", "c", "m">>,
      \* AWP_0-100cm
      <<"A", "W", "P", "_", "0", "-", "1", "0", "0", "c", "m">>,
      \* DFM10H_2024-05-01
      <<"D", "F", "M", "1", "0", "H", "_", "2", "0", "2", "4", "-", "0", "5", "-", "0", "1">>
    }

\* stems of the template files
TemplateStems ==
    {
      \* EN_AWP_0-40cm
      <<"E", "N", "_", "A", "W", "P", "_", "0", "-", "4", "0", "c", "m">>,
      \* EN_UTCI
      <<"E", "N", "_", "U", "T", "C", "I">>,
      \* CZ_UTCI
      <<"C", "Z", "_", "U", "T", "C", "I">>,
      \* EN_HI_max
      <<"E", "N", "_", "H", "I", "_", "m", "a", "x">>
    }

\* the sequences over S of length at most n
SeqsUpTo(S, n) == UNION {[1..k -> S] : k \in 0..n}

TemplateLists == SeqsUpTo(TemplateStems, MaxTemplates)

(***************************************************************************)
(* process_backgrounds.  A template is represented by its stem.            *)
(***************************************************************************)
\* the key without the trailing [:-2] of the AW branch
TemplateKeyNoStrip(background) == Slice(background, 3, Len(background))

\* lines 425-431
TemplateKey(background) ==
    IF Contains(<<"A", "W">>, background)
    THEN Slice(background, 3, -2)
    ELSE Slice(background, 3, Len(background))

\* strptime(date, "%Y-%m-%d").strftime("%d.%m.%Y"): the fields of the label,
\* day first
DateLabel(date) == <<date[3], date[2], date[1]>>

ImageDate(img) == Strptime(Last(Split(img, "_")))

\* the loop with a missing key ending the call instead of `continue`
RECURSIVE BackgroundsLoopAborting(_, _, _, _)
BackgroundsLoopAborting(list_of_background, layout, done, missing) ==
    IF list_of_background = << >>
    THEN [composites |-> done, not_found |-> missing, raised |-> FALSE]
    ELSE LET background == Head(list_of_background)
             background_type == TemplateKey(background)
         IN  IF ~HasKey(layout, background_type)
             THEN [composites |-> done,
                   not_found |-> Append(missing, background_type),
                   raised |-> TRUE]
             ELSE LET img_list == Lookup(layout, background_type)
                  IN  IF \E k \in 1..Len(img_list) : ImageDate(img_list[k]) = None
                      THEN [composites |-> done, not_found |-> missing,
                            raised |-> TRUE]
                      ELSE BackgroundsLoopAborting(
                               Tail(list_of_background), layout,
                               Append(done,
                                   [background |-> background,
                                    background_type |-> background_type,
                                    img_list |-> img_list,
                                    date_labels |->
                                        [k \in 1..Len(img_list) |->
                                            DateLabel(ImageDate(img_list[k])[1])],
                                    out_comp_file |-> background_type]),
                               missing)

\* the loop of lines 423-456 from `list_of_background` on; `done` are the
\* compositor calls made and `missing` the keys reported so far.  strptime
\* raises ValueError on an image without a date: the call ends there.
RECURSIVE BackgroundsLoop(_, _, _, _)
BackgroundsLoop(list_of_background, layout, done, missing) ==
    IF list_of_background = << >>
    THEN [composites |-> done, not_found |-> missing, raised |-> FALSE]
    ELSE LET background == Head(list_of_background)
             background_type == TemplateKey(background)
         IN  IF ~HasKey(layout, background_type)
             THEN BackgroundsLoop(Tail(list_of_background), layout, done,
                                  Append(missing, background_type))
             ELSE LET img_list == Lookup(layout, background_type)
                  IN  IF \E k \in 1..Len(img_list) : ImageDate(img_list[k]) = None
                      THEN [composites |-> done, not_found |-> missing,
                            raised |-> TRUE]
                      ELSE BackgroundsLoop(
                               Tail(list_of_background), layout,
                               Append(done,
                                   [background |-> background,
                                    background_type |-> background_type,
                                    img_list |-> img_list,
                                    date_labels |->
                                        [k \in 1..Len(img_list) |->
                                            DateLabel(ImageDate(img_list[k])[1])],
                                    out_comp_file |-> background_type]),
                               missing)

\* one call of process_backgrounds, for the templates of one target folder
ProcessBackgrounds ==
    /\ lpc = "renamed"
    /\ \E list_of_background \in TemplateLists :
         LET run == BackgroundsLoop(list_of_background,
                                    list_for_background_layout, << >>, << >>)
         IN  /\ backgrounds' = list_of_background
             /\ composites' = run.composites
             /\ not_found' = run.not_found
             /\ lpc' = IF run.raised THEN "error" ELSE "composited"
    /\ UNCHANGED <<xvars, rasters, rendered, list_for_background_layout, renamed,
                   cvars, uvars>>

(***************************************************************************)
(* upload_files_to_api_async and upload_single_file                        *)
(***************************************************************************)
\* root_folder.rglob("*.*"): the entries whose name holds a dot, in
\* directory order
RECURSIVE Enumerate(_, _)
Enumerate(entries, n) ==
    IF n > Len(entries) THEN << >>
    ELSE (IF entries[n].has_dot THEN <<n>> ELSE << >>)
             \o Enumerate(entries, n + 1)

\* a coroutine passes `async with semaphore` whatever the counter
SemaphoreNeverLocked(value) == TRUE

\* asyncio.Semaphore: acquire() goes through only while the counter is > 0
SemaphoreFree(value) == value > 0

\* the semaphore given back only by a transfer that succeeded
ReleasedOnSuccess(value, ending) ==
    IF ending = "200" THEN value + 1 ELSE value

\* leaving `async with semaphore` (line 111) releases it, whether the block
\* returned or raised
Released(value, ending) == value + 1

\* what one POST can end in: a response with its status, or an exception
Outcomes == {"200", "201", "500", "timeout", "client_error", "exception"}

\* the endings that are a response of the server
IsResponse(ending) == ending \in {"200", "201", "500"}

\* upload_single_file returning True for every response, whatever its status
SingleFileResultLax(ending) == ending \in {"200", "201", "500"}

\* lines 116-136: True only for response.status == 200
SingleFileResult(ending) == ending = "200"

\* the except clauses without the last one (`except Exception`)
CaughtByNamedClauses(ending) == ending \in {"timeout", "client_error"}

\* lines 128-136: asyncio.TimeoutError, aiohttp.ClientError and Exception
\* are caught inside the coroutine
Caught(ending) == ending \in {"timeout", "client_error", "exception"}

\* what the coroutine of one file ends with: <<bool>> when it returns,
\* << >> when an exception leaves it
SingleFileReturn(ending) ==
    IF IsResponse(ending) \/ Caught(ending)
    THEN Some(SingleFileResult(ending))
    ELSE None

\* results delivered in the order the tasks ended
GatherAsCompleted(returns, order) ==
    [i \in 1..Len(order) |-> returns[order[i]]]

\* line 89, asyncio.gather(*tasks, return_exceptions=True): the results are
\* in the order of the awaitables passed, whatever the order they ended in
Gather(returns, order) == returns

\* lines 91-95 with every file appended, whatever its result
CollectAll(files, res) == files

\* lines 91-95: zip(all_files, results), the files whose result is true
\* (an exception object is logged and not appended)
RECURSIVE CollectUploaded(_, _)
CollectUploaded(files, res) ==
    IF files = << >> THEN << >>
    ELSE (IF res[1] = Some(TRUE) THEN <<files[1]>> ELSE << >>)
             \o CollectUploaded(Tail(files), Tail(res))

\* lines 49-87: the early return, or the enumeration and the task list
StartUpload ==
    /\ upc = "start"
    /\ IF ~root_exists
       THEN /\ upc' = "returned"
            /\ UNCHANGED <<xvars, all_files, semaphore, task, outcome, results>>
       ELSE /\ all_files' = Enumerate(tree, 1)
            /\ semaphore' = max_concurrent
            /\ task' = [t \in 1..Len(all_files') |-> "created"]
            /\ outcome' = [t \in 1..Len(all_files') |-> "none"]
            /\ results' = [t \in 1..Len(all_files') |-> None]
            /\ upc' = "gather"
    /\ UNCHANGED <<xvars, tree, root_exists, max_concurrent, completed, uploaded,
                   report, cvars, lvars>>

\* line 111: a task enters `async with semaphore`
Acquire(t) ==
    /\ upc = "gather"
    /\ task[t] = "created"
    /\ SemaphoreFree(semaphore)
    /\ semaphore' = semaphore - 1
    /\ task' = [task EXCEPT ![t] = "posting"]
    /\ UNCHANGED <<xvars, tree, root_exists, max_concurrent, all_files, outcome,
                   results, completed, uploaded, report, upc, cvars, lvars>>

\* lines 113-136: the POST of task t ends, the task returns and leaves the
\* semaphore.  read_bytes() of a directory raises, which `except Exception`
\* catches.
Finish(t) ==
    /\ upc = "gather"
    /\ task[t] = "posting"
    /\ \E o \in Outcomes :
         /\ ~tree[all_files[t]].is_file => o = "exception"
         /\ outcome' = [outcome EXCEPT ![t] = o]
         /\ results' = [results EXCEPT ![t] = SingleFileReturn(o)]
         /\ semaphore' = Released(semaphore, o)
         /\ task' = [task EXCEPT ![t] = IF SingleFileReturn(o) = None
                                        THEN "raised" ELSE "done"]
    /\ completed' = Append(completed, t)
    /\ UNCHANGED <<xvars, tree, root_exists, max_concurrent, all_files, uploaded,
                   report, upc, cvars, lvars>>

\* lines 89-97: gather has every result (an exception that left a coroutine
\* is one of the results); the report is built and returned
Collect ==
    /\ upc = "gather"
    /\ \A t \in 1..Len(all_files) : task[t] \in {"done", "raised"}
    /\ uploaded' = CollectUploaded(all_files, Gather(results, completed))
    /\ upc' = "returned"
    /\ UNCHANGED <<xvars, tree, root_exists, max_concurrent, all_files, semaphore,
                   task, outcome, results, completed, report, cvars, lvars>>

\* upload_results_async, lines 24-31: whatever list came back, its length
\* is logged as the result of the upload
ReportUpload ==
    /\ upc = "returned"
    /\ report = None
    /\ report' = Some(Len(uploaded))
    /\ UNCHANGED <<xvars, tree, root_exists, max_concurrent, all_files, semaphore,
                   task, outcome, results, completed, uploaded, upc, cvars,
                   lvars>>

(***************************************************************************)
(* Initial states and specifications.                                      *)
(***************************************************************************)
(***************************************************************************)
(* process_rasters.  A raster is its file name and its coordinate system;  *)
(* reading and writing the files is taken to succeed.                      *)
(***************************************************************************)
\* CRS_FOR_DATA = CRS.from_epsg(3857)
CRS_FOR_DATA == "EPSG:3857"

CoordinateSystems == {"EPSG:3857", "EPSG:4326"}

RasterNames == {"AWP_0-40cm_2024-05-01.tif", "UTCI_2024-05-01.tif"}

\* a folder after a file was written to it
Written(folder, name, crs) ==
    {f \in folder : f.name # name}
        \cup {[name |-> name, crs |-> crs, written |-> TRUE]}

\* convert_coordinate_systen_in_raster, lines 37-64: the output is written
\* only under `if src.crs != target_crs`
ConvertCoordinateSystem(target_crs, input_crs, name, folder) ==
    IF input_crs # target_crs
    THEN Written(folder, name, target_crs)
    ELSE folder

\* one pass of the loop of process_rasters, lines 100-114
ProcessRaster ==
    /\ ppc = "loop"
    /\ Len(list_of_img) < Len(list_of_rasters)
    /\ LET raster == list_of_rasters[Len(list_of_img) + 1]
       IN  \* read_and_clip_raster keeps the metadata of the source
           /\ tump_folder' = Written(tump_folder, raster.name, raster.crs)
           /\ tump_folder_img' = ConvertCoordinateSystem(
                                     CRS_FOR_DATA, raster.crs, raster.name,
                                     tump_folder_img)
           /\ list_of_img' = Append(list_of_img, raster.name)
    /\ UNCHANGED <<list_of_rasters, ppc, cvars, lvars, uvars, svars, mvars>>

\* line 116: return list_of_img
ReturnRasters ==
    /\ ppc = "loop"
    /\ Len(list_of_img) = Len(list_of_rasters)
    /\ ppc' = "returned"
    /\ UNCHANGED <<list_of_rasters, tump_folder, tump_folder_img, list_of_img,
                   cvars, lvars, uvars, svars, mvars>>

(***************************************************************************)
(* remove_old_sftp_folders.  A directory is its name; the time of day of   *)
(* datetime.now() does not change the number of whole days to a midnight.  *)
(***************************************************************************)
\* date.toordinal(): the number of the day, counted from 0001-01-01 as 1
RECURSIVE DaysBeforeMonth(_, _)
DaysBeforeMonth(y, m) ==
    IF m = 1 THEN 0 ELSE DaysBeforeMonth(y, m - 1) + DaysInMonth(y, m - 1)

ToOrdinal(date) ==
    LET y == date[1] - 1
    IN  y * 365 + (y \div 4) - (y \div 100) + (y \div 400)
          + DaysBeforeMonth(date[1], date[2]) + date[3]

\* `from datetime import datetime` (line 3) binds the name datetime to the
\* class, so that datetime.datetime, an attribute of the class, is looked up
DatetimeNamesModule == FALSE

\* lines 173-175: datetime.datetime.strptime(entry.filename, "%Y-%m-%d")
DirDate(filename) ==
    IF ~DatetimeNamesModule
    THEN [raises |-> "AttributeError"]
    ELSE IF Strptime(filename) = None
         THEN [raises |-> "ValueError"]
         ELSE [raises |-> "", date |-> Strptime(filename)[1]]

\* one pass of the loop over dir_entries, lines 170-185: ValueError goes on
\* with the next entry, any other exception leaves the loop for the handler
\* of line 186; _remove_directory_in_sftp is taken to succeed
VisitEntry ==
    /\ spc = "loop"
    /\ entry_index < Len(dir_entries)
    /\ LET filename == dir_entries[entry_index + 1]
           dir_date == DirDate(filename)
       IN  IF dir_date.raises = "ValueError"
           THEN /\ entry_index' = entry_index + 1
                /\ UNCHANGED <<remote_dirs, spc>>
           ELSE IF dir_date.raises # ""
           THEN /\ spc' = "error"
                /\ UNCHANGED <<remote_dirs, entry_index>>
           ELSE /\ remote_dirs' =
                      IF ToOrdinal(current_time) - ToOrdinal(dir_date.date)
                            > days_threshold
                      THEN remote_dirs \ {filename}
                      ELSE remote_dirs
                /\ entry_index' = entry_index + 1
                /\ spc' = spc
    /\ UNCHANGED <<dir_entries, days_threshold, current_time, cvars, lvars,
                   uvars, pvars, mvars>>

\* the loop is over
EndOfEntries ==
    /\ spc = "loop"
    /\ entry_index = Len(dir_entries)
    /\ spc' = "done"
    /\ UNCHANGED <<dir_entries, entry_index, remote_dirs, days_threshold,
                   current_time, cvars, lvars, uvars, pvars, mvars>>

\* names of the entries of remote_root
EntryNames ==
    {
      \* 2024-05-01
      <<"2", "0", "2", "4", "-", "0", "5", "-", "0", "1">>,
      \* 2024-05-20
      <<"2", "0", "2", "4", "-", "0", "5", "-", "2", "0">>,
      \* 2024-05-27
      <<"2", "0", "2", "4", "-", "0", "5", "-", "2", "7">>,
      \* 2024-13-01
      <<"2", "0", "2", "4", "-", "1", "3", "-", "0", "1">>,
      \* test5
      <<"t", "e", "s", "t", "5">>
    }

(***************************************************************************)
(* main.  No statement of main is inside a try block, and main is called   *)
(* by the module itself: an exception that leaves a stage leaves main and  *)
(* ends the interpreter with a traceback.                                  *)
(***************************************************************************)
RasterKinds == {"ok", "unreadable", "unknown_type", "undated"}

\* an exception leaves the stage main is at
Escapes(exception) ==
    /\ escaped' = Some(exception)
    /\ main_pc' = "traceback"
    /\ UNCHANGED <<source_rasters, templates_dict, main_index, temp_dirs>>

\* lines 73-85: ensure_directories_exist(folders), then grab_files
MainEnsureDirectories ==
    /\ main_pc = "start"
    /\ temp_dirs' = TRUE
    /\ main_pc' = "process_rasters"
    /\ UNCHANGED <<source_rasters, templates_dict, main_index, escaped,
                   cvars, lvars, uvars, pvars, svars>>

\* lines 91-96: process_rasters; rasterio.open raises for a file it cannot
\* read
MainProcessRasters ==
    /\ main_pc = "process_rasters"
    /\ IF \E i \in 1..Len(source_rasters) : source_rasters[i] = "unreadable"
       THEN Escapes("RasterioIOError")
       ELSE /\ main_pc' = "layout_v1"
            /\ main_index' = 0
            /\ UNCHANGED <<source_rasters, templates_dict, temp_dirs, escaped>>
    /\ UNCHANGED <<cvars, lvars, uvars, pvars, svars>>

\* lines 105-128: the two loops of process_raster_for_layout, which raises
\* ValueError for a raster type without a palette
MainLayout ==
    /\ main_pc \in {"layout_v1", "layout_v2"}
    /\ IF main_index < Len(source_rasters)
       THEN IF source_rasters[main_index + 1] = "unknown_type"
            THEN Escapes("ValueError")
            ELSE /\ main_index' = main_index + 1
                 /\ UNCHANGED <<source_rasters, templates_dict, temp_dirs,
                                escaped, main_pc>>
       ELSE /\ main_pc' = IF main_pc = "layout_v1" THEN "layout_v2"
                                                    ELSE "templates"
            /\ main_index' = 0
            /\ UNCHANGED <<source_rasters, templates_dict, temp_dirs, escaped>>
    /\ UNCHANGED <<cvars, lvars, uvars, pvars, svars>>

\* lines 130-160: process_backgrounds per template folder; its strptime
\* raises ValueError for an image without a date
MainTemplates ==
    /\ main_pc = "templates"
    /\ IF main_index < templates_dict
       THEN IF \E i \in 1..Len(source_rasters) : source_rasters[i] = "undated"
            THEN Escapes("ValueError")
            ELSE /\ main_index' = main_index + 1
                 /\ UNCHANGED <<source_rasters, templates_dict, temp_dirs,
                                escaped, main_pc>>
       ELSE /\ main_pc' = "sftp"
            /\ main_index' = 0
            /\ UNCHANGED <<source_rasters, templates_dict, temp_dirs, escaped>>
    /\ UNCHANGED <<cvars, lvars, uvars, pvars, svars>>

\* lines 163-195: connect_to_sftp, upload_directory_in_sftp and
\* disconnect_from_sftp handle their exceptions themselves;
\* remove_local_directory(temp_folder) is commented out
MainSftp ==
    /\ main_pc = "sftp"
    /\ main_pc' = "returned"
    /\ UNCHANGED <<source_rasters, templates_dict, main_index, temp_dirs,
                   escaped, cvars, lvars, uvars, pvars, svars>>

IdleClassify ==
    /\ raster_type = << >>
    /\ raster_data = 0
    /\ src_nodata = None
    /\ rec_data = None
    /\ rec_nodata = None
    /\ continuous = FALSE
    /\ image = None
    /\ cpc = "idle"

IdleLayout ==
    /\ rasters = << >>
    /\ rendered = << >>
    /\ list_for_background_layout = << >>
    /\ renamed = << >>
    /\ backgrounds = << >>
    /\ composites = << >>
    /\ not_found = << >>
    /\ lpc = "idle"

IdleUpload ==
    /\ tree = << >>
    /\ root_exists = FALSE
    /\ max_concurrent = 1
    /\ all_files = << >>
    /\ semaphore = 0
    /\ task = << >>
    /\ outcome = << >>
    /\ results = << >>
    /\ completed = << >>
    /\ uploaded = << >>
    /\ report = None
    /\ upc = "idle"

IdleRasters ==
    /\ list_of_rasters = << >>
    /\ tump_folder = {}
    /\ tump_folder_img = {}
    /\ list_of_img = << >>
    /\ ppc = "idle"

IdleSftp ==
    /\ dir_entries = << >>
    /\ entry_index = 0
    /\ remote_dirs = {}
    /\ days_threshold = 7
    /\ current_time = DatetimeMin
    /\ spc = "idle"

IdleMain ==
    /\ source_rasters = << >>
    /\ templates_dict = 0
    /\ main_index = 0
    /\ temp_dirs = FALSE
    /\ escaped = None
    /\ main_pc = "idle"

IdleExtra == IdleRasters /\ IdleSftp /\ IdleMain

\* one raster cell, read by reclassify_raster and by the renderer
InitClassify ==
    /\ palettes \in {"V1", "V2"}
    /\ raster_type \in DOMAIN PaletteTable(palettes)
    /\ raster_data \in CellValues(PaletteTable(palettes)[raster_type].boundaries)
    /\ src_nodata \in NoDataValues
    /\ rec_data = None
    /\ rec_nodata = None
    /\ continuous = PaletteTable(palettes)[raster_type].continuous_coloring
    /\ image = None
    /\ cpc = "loaded"
    /\ IdleLayout
    /\ IdleUpload
    /\ IdleExtra

NextClassify == ReclassifyRaster \/ CreateVisualization

SpecClassify == InitClassify /\ [][NextClassify]_vars

\* the renderer called on its own on one raster cell, in either mode, with
\* the colours and classes of a palette
InitRender ==
    /\ palettes \in {"V1", "V2"}
    /\ raster_type \in DOMAIN PaletteTable(palettes)
    /\ raster_data \in CellValues(PaletteTable(palettes)[raster_type].classes)
    /\ src_nodata \in NoDataValues
    /\ rec_data = None
    /\ rec_nodata = None
    /\ continuous \in BOOLEAN
    /\ image = None
    /\ cpc = "direct"
    /\ IdleLayout
    /\ IdleUpload
    /\ IdleExtra

NextRender == CreateVisualization

SpecRender == InitRender /\ [][NextRender]_vars

\* the renderer called on a raster with a gradient palette
InitGradient ==
    /\ palettes = "gradient"
    /\ raster_type \in DOMAIN PaletteTable(palettes)
    /\ raster_data \in CellValues(PaletteTable(palettes)[raster_type].classes)
                          \cup {-200, 100, 200, 300}
    /\ src_nodata \in NoDataValues
    /\ rec_data = None
    /\ rec_nodata = None
    /\ continuous \in BOOLEAN
    /\ image = None
    /\ cpc = "direct"
    /\ IdleLayout
    /\ IdleUpload
    /\ IdleExtra

NextGradient == CreateVisualization

SpecGradient == InitGradient /\ [][NextGradient]_vars

\* generate_palette_images starts with an empty layout_index
LayoutStart(stems, n) ==
    /\ palettes \in {"V1", "V2"}
    /\ rasters \in SeqsUpTo(stems, n)
    /\ rendered = << >>
    /\ list_for_background_layout = << >>
    /\ renamed = << >>
    /\ backgrounds = << >>
    /\ composites = << >>
    /\ not_found = << >>
    /\ lpc = "processing"
    /\ IdleClassify
    /\ IdleUpload
    /\ IdleExtra

\* the rendering pass of generate_palette_images over a list of rasters
InitLayout == LayoutStart(RasterStems, MaxRasters)

NextLayout == ProcessRasterForLayout \/ RenameAndCopyImages

SpecLayout == InitLayout /\ [][NextLayout]_vars

\* the rendering pass followed by the template stage
InitTemplates == LayoutStart(SeriesStems, MaxSeries)

NextTemplates ==
    ProcessRasterForLayout \/ RenameAndCopyImages \/ ProcessBackgrounds

SpecTemplates == InitTemplates /\ [][NextTemplates]_vars

\* the rendering pass over rasters of several variants of an indicator
InitGroups == LayoutStart(GroupStems, MaxRasters)

NextGroups == ProcessRasterForLayout \/ RenameAndCopyImages

SpecGroups == InitGroups /\ [][NextGroups]_vars

\* one call of upload_files_to_api_async
InitUpload ==
    /\ palettes = "V1"
    /\ tree \in SeqsUpTo([is_file : BOOLEAN, has_dot : BOOLEAN], MaxEntries)
    /\ root_exists \in BOOLEAN
    /\ max_concurrent \in 1..MaxConcurrent
    /\ all_files = << >>
    /\ semaphore = 0
    /\ task = << >>
    /\ outcome = << >>
    /\ results = << >>
    /\ completed = << >>
    /\ uploaded = << >>
    /\ report = None
    /\ upc = "start"
    /\ IdleClassify
    /\ IdleLayout
    /\ IdleExtra

NextUpload ==
    \/ StartUpload
    \/ \E t \in 1..Len(all_files) : Acquire(t)
    \/ \E t \in 1..Len(all_files) : Finish(t)
    \/ Collect
    \/ ReportUpload

SpecUpload == InitUpload /\ [][NextUpload]_vars

\* process_rasters called on a list of rasters; the folder of reprojected
\* rasters may hold files of an earlier run
InitRasters ==
    /\ list_of_rasters \in SeqsUpTo([name : RasterNames, crs : CoordinateSystems],
                                    MaxRasters)
    /\ tump_folder = {}
    /\ tump_folder_img \in SUBSET [name : RasterNames, crs : {CRS_FOR_DATA},
                                    written : {FALSE}]
    /\ list_of_img = << >>
    /\ ppc = "loop"
    /\ palettes = "V1"
    /\ IdleClassify
    /\ IdleLayout
    /\ IdleUpload
    /\ IdleSftp
    /\ IdleMain

NextRasters == ProcessRaster \/ ReturnRasters

SpecRasters == InitRasters /\ [][NextRasters]_vars

\* remove_old_sftp_folders called on a listing without repeated names
InitSftp ==
    /\ dir_entries \in {e \in SeqsUpTo(EntryNames, MaxEntries) :
                            \A i, j \in 1..Len(e) : i # j => e[i] # e[j]}
    /\ entry_index = 0
    /\ remote_dirs = Range(dir_entries)
    /\ days_threshold \in {0, 7, 30}
    /\ current_time \in {<<2024, 5, 28>>, <<2024, 6, 10>>}
    /\ spc = "loop"
    /\ palettes = "V1"
    /\ IdleClassify
    /\ IdleLayout
    /\ IdleUpload
    /\ IdleRasters
    /\ IdleMain

NextSftp == VisitEntry \/ EndOfEntries

SpecSftp == InitSftp /\ [][NextSftp]_vars

\* one run of main
InitMain ==
    /\ source_rasters \in SeqsUpTo(RasterKinds, MaxRasters)
    /\ templates_dict \in 0..MaxTemplates
    /\ main_index = 0
    /\ temp_dirs \in BOOLEAN
    /\ escaped = None
    /\ main_pc = "start"
    /\ palettes = "V1"
    /\ IdleClassify
    /\ IdleLayout
    /\ IdleUpload
    /\ IdleRasters
    /\ IdleSftp

NextMain ==
    \/ MainEnsureDirectories
    \/ MainProcessRasters
    \/ MainLayout
    \/ MainTemplates
    \/ MainSftp

SpecMain == InitMain /\ [][NextMain]_vars

\* the event loop runs every coroutine that can run; a waiter of the
\* asyncio.Semaphore is woken in FIFO order, so a task that can enter again
\* and again does enter; every POST ends (a response, an error, or the
\* ClientTimeout(total=300) of line 67)
FairUpload ==
    /\ WF_vars(StartUpload)
    /\ WF_vars(Collect)
    /\ WF_vars(ReportUpload)
    /\ \A t \in 1..MaxEntries :
          /\ SF_vars(t <= Len(all_files) /\ Acquire(t))
          /\ WF_vars(t <= Len(all_files) /\ Finish(t))

SpecUploadLive == SpecUpload /\ FairUpload

(***************************************************************************)
(* Properties.                                                             *)
(***************************************************************************)

\* ---- classification ----------------------------------------------------

\* C1: reclassify_raster uses right-closed bins.  For a cell value v with
\* boundaries[0] < v <= boundaries[-1] there is exactly one index i with
\* boundaries[i-1] < v <= boundaries[i], and the class written is i-1; a
\* value equal to boundaries[i] gets class i-1.  (Sequences start at 1 here,
\* so the Python index i is j-1 and the class i-1 is j-2.)
C1_RightClosedBins ==
    rec_data # None =>
        LET b == PaletteTable(palettes)[raster_type].boundaries
            v == raster_data
        IN  (b[1] < v /\ v <= b[Len(b)]) =>
              /\ Cardinality({j \in 2..Len(b) : b[j - 1] < v /\ v <= b[j]}) = 1
              /\ \A j \in 2..Len(b) :
                    (b[j - 1] < v /\ v <= b[j]) => rec_data[1] = 10 * (j - 2)
              /\ \A j \in 2..Len(b) :
                    v = b[j] => rec_data[1] = 10 * (j - 2)

\* UTCI of PALETTES_V2, a cell holding exactly the boundary 0: class 3
C1_Witness ==
    /\ cpc = "reclassified"
    /\ palettes = "V2"
    /\ raster_type = <<"U", "T", "C", "I">>
    /\ raster_data = 0
    /\ rec_data = <<30>>

\* C2: a cell holding the raster's stored no-data value (-999 when it
\* stores none) has the same value after reclassify_raster, and is masked
\* when the reclassified raster is rendered.
C2_NoDataRoundTrip ==
    (rec_data # None
        /\ raster_data = (IF src_nodata # None THEN src_nodata[1] ELSE -9990))
    => /\ rec_data[1] = raster_data
       /\ cpc = "rendered" => image[1].masked

\* C3: the class id reclassify_raster writes with a palette's boundaries is
\* a member of that palette's classes, for every reclassified indicator of
\* both tables and every cell value.
C3_ClassInPaletteClasses ==
    rec_data # None =>
        rec_data[1] \in Range(PaletteTable(palettes)[raster_type].classes)

\* ---- grouping ----------------------------------------------------------

\* the keys under which the mapping holds the image `path`
GroupKeysOf(path) ==
    {list_for_background_layout[g].key :
        g \in {h \in 1..Len(list_for_background_layout) :
                 path \in Range(list_for_background_layout[h].paths)}}

\* the palette keys with which `path` was rendered
PaletteKeysOf(path) ==
    {rendered[r].palette : r \in {q \in 1..Len(rendered) : rendered[q].path = path}}

Stem_AWP_0_40 == <<"A", "W", "P", "_", "0", "-", "4", "0", "_", "2", "0", "2", "4", "-", "0", "5", "-", "0", "1">>
Stem_AWP_0_40cm == <<"A", "W", "P", "_", "0", "-", "4", "0", "c", "m", "_", "2", "0", "2", "4", "-", "0", "5", "-", "0", "1">>
Stem_FWI_GenZ == <<"F", "W", "I", "_", "G", "e", "n", "Z", "_", "2", "0", "2", "4", "-", "0", "5", "-", "0", "1">>
Stem_UTCI_03_01 == <<"U", "T", "C", "I", "_", "2", "0", "2", "4", "-", "0", "3", "-", "0", "1">>
Stem_UTCI_01_15 == <<"U", "T", "C", "I", "_", "2", "0", "2", "4", "-", "0", "1", "-", "1", "5">>
Stem_UTCI_02_10 == <<"U", "T", "C", "I", "_", "2", "0", "2", "4", "-", "0", "2", "-", "1", "0">>
Stem_UTCI_0001 == <<"U", "T", "C", "I", "_", "0", "0", "0", "1", "-", "0", "1", "-", "0", "1">>
Stem_UTCI_latest == <<"U", "T", "C", "I", "_", "l", "a", "t", "e", "s", "t">>
Key_AWP == <<"A", "W", "P">>
Key_UTCI == <<"U", "T", "C", "I">>
Key_AWP_0_40 == <<"A", "W", "P", "_", "0", "-", "4", "0">>
Key_AWP_0_ == <<"A", "W", "P", "_", "0", "-">>
Key_FWI_GenZ == <<"F", "W", "I", "_", "G", "e", "n", "Z">>

\* C4 as stated: AWP_0-40_2024-05-01.tif yields indicator key "AWP" and
\* background group key "AWP_0-40".
C4_KeysOfExample ==
    /\ PaletteKeysOf(Stem_AWP_0_40) \subseteq {Key_AWP}
    /\ GroupKeysOf(Stem_AWP_0_40) \subseteq {Key_AWP_0_40}

\* C4 amended: AWP_0-40_2024-05-01.tif yields indicator key "AWP" and
\* background group key "AWP_0-" (the last two characters of "AWP_0-40" are
\* removed); "AWP_0-40" is the key of AWP_0-40cm_2024-05-01.tif.
C4_KeysOfExampleAmended ==
    /\ PaletteKeysOf(Stem_AWP_0_40) \subseteq {Key_AWP}
    /\ GroupKeysOf(Stem_AWP_0_40) \subseteq {Key_AWP_0_}
    /\ PaletteKeysOf(Stem_AWP_0_40cm) \subseteq {Key_AWP}
    /\ GroupKeysOf(Stem_AWP_0_40cm) \subseteq {Key_AWP_0_40}

C4_Witness ==
    /\ Key_AWP \in PaletteKeysOf(Stem_AWP_0_40)
    /\ Key_AWP_0_ \in GroupKeysOf(Stem_AWP_0_40)
    /\ Key_AWP_0_40 \in GroupKeysOf(Stem_AWP_0_40cm)

\* the group key the rule of C5 gives to a stem
RuleKey(stem) ==
    LET t == Split(stem, "_")
        joined == t[1] \o <<"_">> \o t[2]
    IN  CASE Contains(<<"A", "W">>, t[1]) -> SubSeq(joined, 1, Len(joined) - 2)
          [] ~Contains(<<"A", "W">>, t[1]) /\ Contains(<<"F", "W", "I">>, t[1])
                -> Key_FWI_GenZ
          [] OTHER -> t[1]

\* C5: the palette key is the first "_" token t0 of the stem; the group key
\* is t0 + "_" + t1 less its last two characters when t0 contains "AW",
\* "FWI_GenZ" when t0 contains "FWI" and not "AW", and t0 otherwise,
\* whatever groups were collected before.
C5_KeyRule ==
    /\ \A r \in 1..Len(rendered) :
          rendered[r].palette = Split(rendered[r].path, "_")[1]
    /\ \A g \in 1..Len(list_for_background_layout) :
          \A p \in Range(list_for_background_layout[g].paths) :
              list_for_background_layout[g].key = RuleKey(p)

\* the three branches of the rule have been taken in one pass
C5_Witness ==
    /\ Len(list_for_background_layout) = 3
    /\ Key_AWP_0_40 \in GroupKeysOf(Stem_AWP_0_40cm)
    /\ Key_FWI_GenZ \in GroupKeysOf(Stem_FWI_GenZ)
    /\ Key_UTCI \in GroupKeysOf(Stem_UTCI_03_01)

\* ---- templates ---------------------------------------------------------

\* the stem of a raster without its trailing "_<date>" token
WithoutDate(stem) ==
    LET t == Split(stem, "_") IN Join(SubSeq(t, 1, Len(t) - 1), "_")

\* three-character template prefixes
Prefixes == {<<"E", "N", "_">>, <<"C", "Z", "_">>, <<"A", "W", "_">>}

\* C6 as stated: for every grouped raster and every 3-character prefix, the
\* template named prefix + (stem without "_<date>") resolves to the raster's
\* group key.
C6_TemplateFindsGroup ==
    \A g \in 1..Len(list_for_background_layout) :
       \A p \in Range(list_for_background_layout[g].paths) :
          \A x \in Prefixes :
             TemplateKey(x \o WithoutDate(p)) = list_for_background_layout[g].key

\* the stems of the naming convention: <t0>_<t1>_<date> for the AW family,
\* FWI_GenZ_<date>, <t0>_<date> for the other indicators
Conventional(stem) ==
    LET t == Split(stem, "_")
    IN  CASE Contains(<<"A", "W">>, t[1]) -> Len(t) = 3
          [] ~Contains(<<"A", "W">>, t[1]) /\ Contains(<<"F", "W", "I">>, t[1])
                -> WithoutDate(stem) = Key_FWI_GenZ
          [] OTHER -> Len(t) = 2

\* C6 amended: the template resolves to the raster's group key when the
\* raster's stem follows the naming convention and the template's stem
\* contains "AW" only if the indicator key does.
C6_TemplateFindsGroupAmended ==
    \A g \in 1..Len(list_for_background_layout) :
       \A p \in Range(list_for_background_layout[g].paths) :
          \A x \in Prefixes :
             (/\ Conventional(p)
              /\ Contains(<<"A", "W">>, x \o WithoutDate(p))
                    <=> Contains(<<"A", "W">>, Split(p, "_")[1]))
             => TemplateKey(x \o WithoutDate(p)) = list_for_background_layout[g].key

\* the template EN_AWP_0-40cm was composited with the group of
\* AWP_0-40cm_2024-05-01
C6_Witness ==
    \E c \in 1..Len(composites) :
       /\ composites[c].background = <<"E", "N", "_">> \o WithoutDate(Stem_AWP_0_40cm)
       /\ composites[c].background_type \in GroupKeysOf(Stem_AWP_0_40cm)
       /\ Stem_AWP_0_40cm \in Range(composites[c].img_list)

\* ---- renaming ----------------------------------------------------------

\* the copies rename_and_copy_images made for the group `key`
CopiesFor(key) == {j \in 1..Len(renamed) : renamed[j].indicator = key}

DateOfCopy(j) == Strptime(Last(Split(renamed[j].src, "_")))

\* every image of every group is copied once, the copies of a group are
\* made in the order of their indices 0, 1, ..., the index ends the output
\* name, and validly dated images are indexed in ascending date order
RenamedInDateOrder ==
    \A g \in 1..Len(list_for_background_layout) :
       LET key == list_for_background_layout[g].key
           paths == list_for_background_layout[g].paths
           J == CopiesFor(key)
       IN  /\ Cardinality(J) = Len(paths)
           /\ {renamed[j].i : j \in J} = 0..(Len(paths) - 1)
           /\ \A p \in Range(paths) :
                 Cardinality({j \in J : renamed[j].src = p})
                    = Cardinality({k \in 1..Len(paths) : paths[k] = p})
           /\ \A j1, j2 \in J : j1 < j2 => renamed[j1].i < renamed[j2].i
           /\ \A j \in J :
                 Last(Split(renamed[j].dst, "_")) = IntToStr(renamed[j].i)
           /\ \A j1, j2 \in J :
                 (/\ DateOfCopy(j1) # None /\ DateOfCopy(j2) # None
                  /\ DateLess(DateOfCopy(j1)[1], DateOfCopy(j2)[1]))
                 => renamed[j1].i < renamed[j2].i

\* the example: listed as 2024-03-01, 2024-01-15, 2024-02-10, the images
\* get the indices 2, 0, 1
RenamedExample ==
    \A g \in 1..Len(list_for_background_layout) :
       list_for_background_layout[g].paths
            = <<Stem_UTCI_03_01, Stem_UTCI_01_15, Stem_UTCI_02_10>>
       => \A j \in CopiesFor(list_for_background_layout[g].key) :
             renamed[j].i = CASE renamed[j].src = Stem_UTCI_03_01 -> 2
                              [] renamed[j].src = Stem_UTCI_01_15 -> 0
                              [] renamed[j].src = Stem_UTCI_02_10 -> 1

\* the image is undated or dated 0001-01-01
AtDatetimeMin(path) ==
    LET d == Strptime(Last(Split(path, "_")))
    IN  d = << >> \/ d = <<<<1, 1, 1>>>>

\* C7 as stated: ..., and an image whose last token is no valid date is
\* indexed before every validly dated image of its group.
C7_DateOrder ==
    lpc = "renamed" =>
       /\ RenamedInDateOrder
       /\ RenamedExample
       /\ \A j1, j2 \in 1..Len(renamed) :
             (/\ renamed[j1].indicator = renamed[j2].indicator
              /\ DateOfCopy(j1) = None /\ DateOfCopy(j2) # None)
             => renamed[j1].i < renamed[j2].i

\* C7 amended: ..., and an image whose last token is no valid date is
\* ordered as if dated 0001-01-01 (datetime.min): before every image dated
\* later than that, and in listing order among the undated images and the
\* images dated 0001-01-01.
C7_DateOrderAmended ==
    lpc = "renamed" =>
       /\ RenamedInDateOrder
       /\ RenamedExample
       /\ \A j1, j2 \in 1..Len(renamed) :
             (/\ renamed[j1].indicator = renamed[j2].indicator
              /\ DateOfCopy(j1) = None /\ DateOfCopy(j2) # None
              /\ DateLess(<<1, 1, 1>>, DateOfCopy(j2)[1]))
             => renamed[j1].i < renamed[j2].i
       /\ \A g \in 1..Len(list_for_background_layout) :
             LET key == list_for_background_layout[g].key
                 AtMinCopy(r) == r.indicator = key /\ AtDatetimeMin(r.src)
                 copies == SelectSeq(renamed, AtMinCopy)
             IN  [k \in 1..Len(copies) |-> copies[k].src]
                    = SelectSeq(list_for_background_layout[g].paths,
                                AtDatetimeMin)

\* the example of the claim has been renamed
C7_Witness ==
    /\ lpc = "renamed"
    /\ Len(renamed) = 3
    /\ renamed[1].src = Stem_UTCI_01_15 /\ renamed[1].i = 0
    /\ renamed[2].src = Stem_UTCI_02_10 /\ renamed[2].i = 1
    /\ renamed[3].src = Stem_UTCI_03_01 /\ renamed[3].i = 2

\* C8: the position at which process_backgrounds hands an image to the
\* compositor is the sequence index rename_and_copy_images gave that image.
C8_CompositorOrder ==
    \A c \in 1..Len(composites) :
       \A pos \in 1..Len(composites[c].img_list) :
          \E j \in CopiesFor(composites[c].background_type) :
             /\ renamed[j].src = composites[c].img_list[pos]
             /\ renamed[j].i = pos - 1

\* ---- upload ------------------------------------------------------------

InFlight == {t \in 1..Len(task) : task[t] = "posting"}

\* C10: at most max_concurrent transfers are in flight.
C10_BoundedInFlight ==
    Cardinality(InFlight) <= max_concurrent

\* the limit is reached while another file waits
C10_Witness ==
    /\ Cardinality(InFlight) = max_concurrent
    /\ \E t \in 1..Len(task) : task[t] = "created"

\* the transfers whose POST did not end in a response with status 200
Failed == {t \in 1..Len(outcome) : outcome[t] \notin {"none", "200"}}

\* C11: a non-success response, a timeout, a transport error or any other
\* exception in one file's transfer is a failed outcome of that file only:
\* no exception leaves a coroutine or the function, every enumerated file
\* is attempted, and the files whose transfer succeeded are still reported.
C11_FailureStaysWithItsFile ==
    /\ upc \in {"idle", "start", "gather", "returned"}
    /\ \A t \in 1..Len(task) : task[t] # "raised"
    /\ \A t \in Failed : results[t] = Some(FALSE)
    /\ (upc = "returned" /\ root_exists) =>
          /\ \A t \in 1..Len(all_files) : task[t] = "done"
          /\ \A t \in Failed : all_files[t] \notin Range(uploaded)
          /\ \A t \in 1..Len(all_files) :
                t \notin Failed => all_files[t] \in Range(uploaded)

\* the first file's transfer ended in an exception, the second one's was
\* attempted afterwards and succeeded
C11_Witness ==
    /\ upc = "returned"
    /\ Len(all_files) = 2
    /\ outcome[1] = "exception"
    /\ completed = <<1, 2>>
    /\ uploaded = <<all_files[2]>>

\* C12: a file is reported as uploaded iff its own coroutine returned True,
\* whatever the order the transfers ended in.
C12_PairedByIdentity ==
    (upc = "returned" /\ root_exists) =>
        \A t \in 1..Len(all_files) :
            (\E u \in 1..Len(uploaded) : uploaded[u] = all_files[t])
                <=> results[t] = Some(TRUE)

\* the second file ended first and succeeded, the first one ended last and
\* failed
C12_Witness ==
    /\ upc = "returned"
    /\ completed = <<2, 1>>
    /\ results = <<Some(FALSE), Some(TRUE)>>
    /\ uploaded = <<all_files[2]>>

\* C13: every slot taken is given back when its transfer ends, however it
\* ends, and (every started transfer ending) the function returns with
\* every enumerated file's transfer started and ended.
C13_EveryTransferEnds ==
    /\ [](upc = "gather" =>
             semaphore + Cardinality(InFlight) = max_concurrent)
    /\ <>(/\ upc = "returned"
          /\ \A t \in 1..Len(all_files) : task[t] = "done")

\* two files through one slot: the first timed out, the second still ran
C13_Witness ==
    /\ upc = "returned"
    /\ max_concurrent = 1
    /\ Len(all_files) = 2
    /\ outcome[1] = "timeout"
    /\ outcome[2] # "none"
    /\ task[2] = "done"

C15_EnumeratesRegularFiles ==
    (upc \in {"gather", "returned"} /\ root_exists) =>
        /\ Range(all_files) = {n \in 1..Len(tree) : tree[n].is_file}
        /\ Cardinality(Range(all_files)) = Len(all_files)

\* ---- rendering ---------------------------------------------------------

\* C16: the cells treated as no-data are, in both modes, the cells equal to
\* -999 and the cells equal to the raster's stored no-data value, plus, in
\* continuous mode only, the cells equal to -1.
C16_MaskedCells ==
    cpc = "rendered" =>
        (image[1].masked <=>
            \/ RenderedData = -9990
            \/ RenderedNoData # None /\ RenderedData = RenderedNoData[1]
            \/ continuous /\ RenderedData = -10)

\* the palette the renderer was called with
RenderPalette == PaletteTable(palettes)[raster_type]

\* C17: in discrete mode a drawn cell equal to classes[k] gets colors[k],
\* and a cell below classes[0] or above classes[-1] gets the first,
\* respectively the last, colour; no palette makes the renderer fail.
C17_ClassColour ==
    /\ cpc # "render_error"
    /\ (cpc = "rendered" /\ ~continuous /\ ~image[1].masked) =>
          LET classes == RenderPalette.classes
              colors == RenderPalette.colors
          IN  /\ \A k \in 1..Len(classes) :
                    RenderedData = classes[k] => image[1].color = Some(k - 1)
              /\ RenderedData < classes[1] => image[1].color = Some(0)
              /\ RenderedData > classes[Len(classes)]
                    => image[1].color = Some(Len(colors) - 1)

\* C18: every palette of both tables has as many colours as classes.
C18_ColoursMatchClasses ==
    raster_type \in DOMAIN PaletteTable(palettes) =>
        Len(RenderPalette.colors) = Len(RenderPalette.classes)

\* ---- errors of the rendering pass and of the template stage ------------

\* the raster at hand has a type the active palette table does not hold
UnknownPalette ==
    /\ rasters # << >>
    /\ Split(Head(rasters), "_")[1] \notin DOMAIN PaletteTable(palettes)

\* C19: a raster whose first token is no key of the active palette table
\* makes process_raster_for_layout raise before anything is reclassified or
\* rendered and with the mapping unchanged, and the error ends the pass: no
\* later raster is processed and rename_and_copy_images is not run.
C19_UnknownPaletteEndsPass ==
    [][/\ (lpc = "processing" /\ UnknownPalette) =>
              /\ lpc' = "error"
              /\ UNCHANGED <<xvars, rasters, rendered, list_for_background_layout,
                             renamed>>
       /\ lpc = "error" => UNCHANGED lvars]_vars

\* a raster was rendered, the next one has no palette, a third one is left
C19_Witness ==
    /\ lpc = "error"
    /\ Len(rendered) = 1
    /\ Len(rasters) = 2
    /\ UnknownPalette
    /\ renamed = << >>

\* the templates of the last call whose key has no group
Unmatched ==
    {i \in 1..Len(backgrounds) :
        ~HasKey(list_for_background_layout, TemplateKey(backgrounds[i]))}

\* the templates of the last call whose group holds an image without a date
Undated ==
    {i \in (1..Len(backgrounds)) \ Unmatched :
        LET img_list == Lookup(list_for_background_layout,
                               TemplateKey(backgrounds[i]))
        IN  \E k \in 1..Len(img_list) : ImageDate(img_list[k]) = None}

\* C20: a template whose key has no group gets no composite and is
\* reported, and the templates after it are still processed: the call ends
\* early only for another reason (an image without a date).
C20_UnmatchedTemplateSkipped ==
    /\ \A c \in 1..Len(composites) :
          HasKey(list_for_background_layout, composites[c].background_type)
    /\ lpc = "composited" =>
          /\ Undated = {}
          /\ Len(not_found) = Cardinality(Unmatched)
          /\ \A i \in Unmatched :
                TemplateKey(backgrounds[i]) \in Range(not_found)
          /\ \A i \in (1..Len(backgrounds)) \ Unmatched :
                \E c \in 1..Len(composites) :
                    composites[c].background = backgrounds[i]
    /\ (lpc = "error" /\ backgrounds # << >>) => Undated # {}

\* the first template has no group, the second one is composited
C20_Witness ==
    /\ lpc = "composited"
    /\ Len(backgrounds) = 2
    /\ Unmatched = {1}
    /\ Len(not_found) = 1
    /\ Len(composites) = 1
    /\ composites[1].background = backgrounds[2]

\* C21: an image without a parseable date inside a matched group does not
\* end the call of process_backgrounds: the call returns, and every matched
\* template whose images are all dated is composited.
C21_UndatedImageRecoverable ==
    backgrounds # << >> =>
        /\ lpc # "error"
        /\ \A i \in (1..Len(backgrounds)) \ (Unmatched \cup Undated) :
              \E c \in 1..Len(composites) :
                  composites[c].background = backgrounds[i]

\* C22: a root folder that does not exist ends the upload as a failure: the
\* function does not return normally and no finished upload is reported.
C22_MissingRootAborts ==
    ~root_exists => upc \in {"idle", "start"} /\ report = None

\* C24: within one call of process_backgrounds two different templates
\* never write the same output file.
C24_OneOutputPerTemplate ==
    \A c1, c2 \in 1..Len(composites) :
        composites[c1].background # composites[c2].background
            => composites[c1].out_comp_file # composites[c2].out_comp_file

\* C27: a cell that does not hold the raster's no-data value is never
\* written as class -1 or -999.
C27_NoReservedClassForData ==
    (rec_data # None /\ raster_data # NoDataOrDefault(src_nodata))
        => rec_data[1] \notin {-10, -9990}

\* ---- groups -----------------------------------------------------------

\* C25: in every group of the mapping the image stems are identical except
\* for their final date token, and no two images of a group carry the same
\* date.
C25_GroupDiffersOnlyByDate ==
    \A g \in 1..Len(list_for_background_layout) :
       LET paths == list_for_background_layout[g].paths
       IN  \A i, j \in 1..Len(paths) :
              i # j => /\ WithoutDate(paths[i]) = WithoutDate(paths[j])
                       /\ Last(Split(paths[i], "_")) # Last(Split(paths[j], "_"))

\* C28: within one call of rename_and_copy_images two different source
\* images never get the same destination name.
C28_DistinctDestinations ==
    \A j1, j2 \in 1..Len(renamed) :
       renamed[j1].src # renamed[j2].src => renamed[j1].dst # renamed[j2].dst

\* ---- gradient ---------------------------------------------------------

\* C26: in continuous mode, with the boundaries [-40, 0, 40] and the colours
\* [(0,0,0), (255,255,255)], the value -20 is drawn as the midpoint grey
\* (about 128, 128, 128).
C26_MidpointGrey ==
    (/\ palettes = "gradient"
     /\ raster_type = <<"A", "W", "P">>
     /\ continuous
     /\ raster_data = -200
     /\ cpc # "direct")
    => /\ image # None
       /\ \A ch \in 1..3 : image[1].rgb[ch] \in 126..129

\* ---- process_rasters --------------------------------------------------

\* C29: process_rasters returns one path per input raster, and every
\* returned path is a file written during this call in the target
\* coordinate system.
C29_ReturnedPathsWritten ==
    ppc = "returned" =>
        /\ Len(list_of_img) = Len(list_of_rasters)
        /\ \A i \in 1..Len(list_of_img) :
              /\ list_of_img[i] = list_of_rasters[i].name
              /\ \E f \in tump_folder_img :
                    /\ f.name = list_of_img[i]
                    /\ f.written
                    /\ f.crs = CRS_FOR_DATA

\* ---- remove_old_sftp_folders ------------------------------------------

\* the directory named by a date more than days_threshold days before now
OldDirectory(filename) ==
    /\ Strptime(filename) # None
    /\ ToOrdinal(current_time) - ToOrdinal(Strptime(filename)[1])
          > days_threshold

\* C30: once remove_old_sftp_folders is over, the directories named by a
\* date more than days_threshold days before now are removed, and every
\* other entry is in place.
C30_OldFoldersRemoved ==
    spc \in {"done", "error"} =>
        \A i \in 1..Len(dir_entries) :
           OldDirectory(dir_entries[i]) <=> dir_entries[i] \notin remote_dirs

\* ---- main -------------------------------------------------------------

\* C23: an exception that leaves a pipeline stage is caught at the outermost
\* level of the run, and the temporary working directories are cleaned up
\* before the run terminates.
C23_EscapedExceptionCleansUp ==
    escaped # None => /\ main_pc # "traceback"
                      /\ ~temp_dirs

====
